---- MODULE Spec2Model ----
(***************************************************************************)
(* Model of the HWGW scheduler of bb-for-fun (hack-v1/scheduler.js with    *)
(* hack-v1/analyzer.js): the capacity pool builder, the greedy allocator   *)
(* scheduleOperation, the prep / batch routing and the scheduling loop.    *)
(*                                                                         *)
(* Units.  RAM is counted in quarters of a GB, so WORKER_RAM = 1.75 GB is  *)
(* 7 and the 20 GB reservation is 80; every RAM value of the model is a    *)
(* multiple of 0.25 GB, which JavaScript doubles represent and subtract    *)
(* exactly.  Security is counted in thousandths (WEAKEN_AMOUNT 0.05 = 50,  *)
(* tolerance 0.1 = 100).  Times are counted in minutes (one hour = 60).    *)
(***************************************************************************)
EXTENDS Integers, Sequences, FiniteSets, TLC

(***************************************************************************)
(* Bounds of the model.                                                    *)
(***************************************************************************)
MaxCycles == 2
MaxFailures == 1

(***************************************************************************)
(* Program constants.                                                      *)
(***************************************************************************)
WORKER_RAM == 7
reservedRam == 80
orchestratorReservedRam == 120
statusReservedRam == 80
WEAKEN_AMOUNT == 50
HACK_SECURITY_INCREASE == 2
GROW_SECURITY_INCREASE == 4
SecTolerance == 100
TargetCount == 5
OneHour == 60

(***************************************************************************)
(* A port is a queue of messages.  ns.peek returns the head without        *)
(* removing it, or "NULL PORT DATA" when the queue is empty.               *)
(***************************************************************************)
HasNoData(port) == port = <<>>
Peek(port) == Head(port)
\* faulty variant of ClearPort: the queue is left as it is
ClearPort_KeepsQueue(port) == port

ClearPort(port) == <<>>
WritePort(port, data) == Append(port, data)

(***************************************************************************)
(* The world the scripts query through ns: hosts, topology, RAM, targets.  *)
(***************************************************************************)
Hosts == {"home", "worker-0", "n1", "n2", "darkweb"}
PurchasedServers == {"worker-0"}
TargetHosts == {"n1", "n2"}
OpTypes == {"hack", "grow", "weaken"}

\* ns.scan(host): the neighbours of a host, in the order the game lists them
Scan(h) ==
    CASE h = "home" -> <<"worker-0", "n1", "darkweb">>
      [] h = "worker-0" -> <<"home">>
      [] h = "n1" -> <<"home", "n2">>
      [] h = "n2" -> <<"n1">>
      [] OTHER -> <<"home">>

\* ns.getServerMaxRam(host)
ServerMaxRam(h) ==
    CASE h = "home" -> 128
      [] h = "worker-0" -> 32
      [] h = "n1" -> 16
      [] OTHER -> 0

\* ns.getServerMaxMoney, ns.getServerMinSecurityLevel, required hacking skill
ServerMaxMoney(h) == CASE h = "n1" -> 100 [] h = "n2" -> 400 [] OTHER -> 0
ServerMinSecurity(h) == CASE h = "n1" -> 1000 [] h = "n2" -> 3000 [] OTHER -> 1000
RequiredHackingSkill(h) ==
    CASE h = "n1" -> 10 [] h = "n2" -> 30 [] OTHER -> 1

\* ns.getHackTime / getGrowTime / getWeakenTime and ns.hackAnalyzeChance (in tenths)
HackTime(h) == IF h = "n2" THEN 2 ELSE 1
GrowTime(h) == 3 * HackTime(h)
WeakenTime(h) == 4 * HackTime(h)
HackChance(h) == 10
\* ns.hackAnalyzeThreads(target, maxMoney * hackPercent), in tenths of a thread
HackAnalyzeThreads(h) == IF h = "n2" THEN 25 ELSE 4
\* growth of the money of a target by one grow thread (a factor)
GrowthFactor == 2

VARIABLES
    hasRoot,            \* ns.hasRootAccess, per host
    usedRam,            \* ns.getServerUsedRam, per host (live)
    secLevel,           \* ns.getServerSecurityLevel, per target (live)
    moneyAvail,         \* ns.getServerMoneyAvailable, per target (live)
    hackingLevel,       \* ns.getPlayer().skills.hacking
    procs,              \* live worker processes: pid -> [host, type, target, threads]
    nextPid,            \* the pid the next successful ns.exec returns
    now,                \* Date.now()
    port1,              \* PORT_SERVER_LIST: queue of the manager's server lists
    port4,              \* PORT_SCHEDULER_STATE: queue of the scheduler's states
    pc,                 \* position of the scheduler's main loop
    cycle,              \* number of scheduling cycles started
    ramPool,            \* the pool of the running cycle
    targets,            \* the ranked targets of the running cycle
    tgtIdx,             \* index of the target the for loop is at
    pending,            \* scheduleOperation calls the current target still makes
    call,               \* the running scheduleOperation call
    operationStartTimes,\* pid -> [target, type, startTime], of the running cycle
    calls,              \* scheduleOperation calls made in the running cycle
    requests,           \* ns.exec requests issued in the running cycle
    nsValues,           \* the values ns returns to an analyzer function called alone
    analysis,           \* the result of the last analyzer function called alone
    port2,              \* PORT_STATUS: queue of the published statuses
    statusPc,           \* position of the status loop
    statusIteration,    \* number of status cycles started
    activeOps,          \* result of the last getActiveOperations call
    sharedState,        \* sharedState.targets and .servers of the two-loop scheduler
    launcherPc,         \* position of the launcher's main
    launcherCycle,      \* number of launcher cycles started by the running launcher
    managerPid,         \* launcher.js: the pid last recorded for the manager
    schedulerPid,       \* launcher.js: the pid last recorded for the scheduler
    managerHost,        \* launcher.js: the host last chosen for the manager
    schedulerHost,      \* launcher.js: the host last chosen for the scheduler
    lastDeployedServer, \* launcher.js: the host of the last deployment
    port3,              \* PORT_CONTROL: queue of control messages
    startRequests,      \* the ns.exec requests the launchers have issued
    knownServers,       \* manager.js: the set of servers seen in earlier cycles
    rootCalls,          \* number of rootServer calls of the running manager, per host
    managerCycle,       \* number of cycles of the running manager
    purchased,          \* the purchased servers that exist
    openers             \* number of port openers present on home

vars == <<hasRoot, usedRam, secLevel, moneyAvail, hackingLevel, procs, nextPid,
          now, port1, port4, pc, cycle, ramPool, targets, tgtIdx, pending,
          call, operationStartTimes, calls, requests, nsValues, analysis,
          port2, statusPc, statusIteration, activeOps, sharedState,
          launcherPc, launcherCycle, managerPid, schedulerPid, managerHost,
          schedulerHost, lastDeployedServer, port3, startRequests,
          knownServers, rootCalls, managerCycle, purchased, openers>>

analyzerVars == <<nsValues, analysis>>

reporterVars == <<port2, statusPc, statusIteration, activeOps, sharedState>>

launcherVars ==
    <<launcherPc, launcherCycle, managerPid, schedulerPid, managerHost,
      schedulerHost, lastDeployedServer, port3, startRequests>>

managerVars == <<knownServers, rootCalls, managerCycle, purchased, openers>>

systemVars == <<launcherVars, managerVars>>

worldVars == <<hasRoot, secLevel, moneyAvail, hackingLevel>>

Max(a, b) == IF a >= b THEN a ELSE b
Min(a, b) == IF a <= b THEN a ELSE b
\* Math.ceil(a / b) and Math.floor(a / b) for a >= 0, b > 0
CeilDiv(a, b) == (a + b - 1) \div b
FloorDiv(a, b) == a \div b

(***************************************************************************)
(* JavaScript numbers.  The security constants 0.05, 0.002 and 0.004 are   *)
(* not multiples of a power of two, so sums and quotients of them are      *)
(* rounded: a number is m * 2^e with a mantissa m of at most MantissaBits  *)
(* bits, and every operation rounds its exact result to the nearest such   *)
(* number, ties to the even mantissa (IEEE 754 binary64).  Mantissas are   *)
(* wider than the integers of the model checker, so they are kept in limbs *)
(* of LimbBits bits.                                                       *)
(***************************************************************************)
LimbBits == 15
LimbBase == 32768
MantissaBits == 53

\* a natural number is the sequence of its limbs, lowest first, the last
\* limb not 0 (so 0 is the empty sequence)

RECURSIVE Pow2(_)
Pow2(n) == IF n = 0 THEN 1 ELSE 2 * Pow2(n - 1)

RECURSIVE BitLength(_)
BitLength(k) == IF k = 0 THEN 0 ELSE 1 + BitLength(k \div 2)

RECURSIVE BigNorm(_)
BigNorm(a) ==
    IF a = <<>> THEN a
    ELSE IF a[Len(a)] = 0 THEN BigNorm(SubSeq(a, 1, Len(a) - 1)) ELSE a

BigOfInt(k) == BigNorm(<<k % LimbBase, k \div LimbBase>>)

RECURSIVE BigToInt(_)
BigToInt(a) == IF a = <<>> THEN 0 ELSE Head(a) + LimbBase * BigToInt(Tail(a))

Limb(a, i) == IF i <= Len(a) THEN a[i] ELSE 0

BigBitLen(a) ==
    IF a = <<>> THEN 0 ELSE (Len(a) - 1) * LimbBits + BitLength(a[Len(a)])

RECURSIVE BigMulSmall(_, _, _)
BigMulSmall(a, k, carry) ==
    IF k = 0 THEN <<>>
    ELSE IF a = <<>> THEN (IF carry = 0 THEN <<>> ELSE <<carry>>)
    ELSE LET p == Head(a) * k + carry
         IN  <<p % LimbBase>> \o BigMulSmall(Tail(a), k, p \div LimbBase)

RECURSIVE BigAddC(_, _, _)
BigAddC(a, b, carry) ==
    IF a = <<>> /\ b = <<>> THEN (IF carry = 0 THEN <<>> ELSE <<carry>>)
    ELSE LET s == Limb(a, 1) + Limb(b, 1) + carry
         IN  <<s % LimbBase>>
             \o BigAddC(IF a = <<>> THEN a ELSE Tail(a),
                        IF b = <<>> THEN b ELSE Tail(b), s \div LimbBase)

BigAdd(a, b) == BigAddC(a, b, 0)

RECURSIVE BigSubB(_, _, _)
BigSubB(a, b, borrow) ==
    IF a = <<>> THEN <<>>
    ELSE LET d == Head(a) - Limb(b, 1) - borrow
         IN  <<d % LimbBase>>
             \o BigSubB(Tail(a), IF b = <<>> THEN b ELSE Tail(b),
                        IF d < 0 THEN 1 ELSE 0)

\* a - b for a >= b
BigSub(a, b) == BigNorm(BigSubB(a, b, 0))

RECURSIVE BigGeqFrom(_, _, _)
BigGeqFrom(a, b, i) ==
    IF i = 0 THEN TRUE
    ELSE IF a[i] # b[i] THEN a[i] > b[i]
    ELSE BigGeqFrom(a, b, i - 1)

BigGeq(a, b) ==
    IF Len(a) # Len(b) THEN Len(a) > Len(b) ELSE BigGeqFrom(a, b, Len(a))

\* a * 2^s
BigShl(a, s) ==
    IF a = <<>> THEN a
    ELSE [i \in 1..(s \div LimbBits) |-> 0]
         \o BigMulSmall(a, Pow2(s % LimbBits), 0)

\* floor(a / 2^s)
BigShr(a, s) ==
    LET drop == s \div LimbBits
        r == Pow2(s % LimbBits)
        b == IF drop >= Len(a) THEN <<>> ELSE SubSeq(a, drop + 1, Len(a))
    IN  BigNorm([i \in 1..Len(b) |->
                   (b[i] \div r) + (Limb(b, i + 1) % r) * (LimbBase \div r)])

IsOdd(a) == a # <<>> /\ Head(a) % 2 = 1

RECURSIVE QuotientDigit(_, _, _, _)
\* the largest d in lo..hi with den * d <= r (den * lo <= r is given)
QuotientDigit(r, den, lo, hi) ==
    IF lo = hi THEN lo
    ELSE LET mid == (lo + hi + 1) \div 2
         IN  IF BigGeq(r, BigMulSmall(den, mid, 0))
             THEN QuotientDigit(r, den, mid, hi)
             ELSE QuotientDigit(r, den, lo, mid - 1)

RECURSIVE BigDivMod(_, _, _, _, _)
\* long division of num by den, limb i of num downwards
BigDivMod(num, den, i, q, r) ==
    IF i = 0 THEN [q |-> BigNorm(q), r |-> r]
    ELSE LET r2 == BigNorm(<<num[i]>> \o r)
             d == QuotientDigit(r2, den, 0, LimbBase - 1)
         IN  BigDivMod(num, den, i - 1, <<d>> \o q,
                       BigSub(r2, BigMulSmall(den, d, 0)))

\* round m * 2^e to MantissaBits bits, ties to even
F64Round(m, e) ==
    LET n == BigBitLen(m)
        s == n - MantissaBits
        q == BigShr(m, s)
        r == BigSub(m, BigShl(q, s))
        half == BigShl(<<1>>, s - 1)
        up == IF r = half THEN IsOdd(q) ELSE BigGeq(r, half)
    IN  IF n <= MantissaBits THEN [m |-> m, e |-> e]
        ELSE [m |-> IF up THEN BigAddC(q, <<>>, 1) ELSE q, e |-> e + s]

F64OfInt(k) == [m |-> BigOfInt(k), e |-> 0]

F64MulInt(x, k) == F64Round(BigMulSmall(x.m, k, 0), x.e)

F64Add(x, y) ==
    LET low == Min(x.e, y.e)
    IN  F64Round(BigAdd(BigShl(x.m, x.e - low), BigShl(y.m, y.e - low)), low)

F64Div(x, y) ==
    LET k == Max(0, MantissaBits + 2 + BigBitLen(y.m) - BigBitLen(x.m))
        num == BigShl(x.m, k)
        d == BigDivMod(num, y.m, Len(num), <<>>, <<>>)
        sticky == IF d.r = <<>> THEN 0 ELSE 1
    IN  IF x.m = <<>> THEN x
        ELSE F64Round(BigAddC(d.q, d.q, sticky), x.e - y.e - k - 1)

\* Math.ceil(x) for x >= 0 below 2^31
F64Ceil(x) ==
    IF x.e >= 0 THEN BigToInt(BigShl(x.m, x.e))
    ELSE LET q == BigShr(x.m, 0 - x.e)
         IN  BigToInt(q) + (IF BigShl(q, 0 - x.e) = x.m THEN 0 ELSE 1)

\* the number a decimal literal num / den denotes: the nearest double
F64OfDecimal(num, den) == F64Div(F64OfInt(num), F64OfInt(den))

\* the constants of analyzer.js lines 4-6 as JavaScript numbers
WeakenAmount == F64OfDecimal(WEAKEN_AMOUNT, 1000)
HackSecurityIncrease == F64OfDecimal(HACK_SECURITY_INCREASE, 1000)
GrowSecurityIncrease == F64OfDecimal(GROW_SECURITY_INCREASE, 1000)

(***************************************************************************)
(* analyzer.js                                                             *)
(***************************************************************************)
\* faulty variant of IsPreppedV: either condition is enough
IsPreppedV_Either(currentSec, minSec, currentMoney, maxMoney) ==
    LET secPrepped == currentSec <= minSec + SecTolerance
        moneyPrepped == currentMoney * 100 >= maxMoney * 99
    IN  secPrepped \/ moneyPrepped

\* isPrepped on the four values it reads
IsPreppedV(currentSec, minSec, currentMoney, maxMoney) ==
    LET secPrepped == currentSec <= minSec + SecTolerance
        moneyPrepped == currentMoney * 100 >= maxMoney * 99
    IN  secPrepped /\ moneyPrepped

isPrepped(t) ==
    IsPreppedV(secLevel[t], ServerMinSecurity(t), moneyAvail[t], ServerMaxMoney(t))

RECURSIVE GrowthSteps(_, _, _)
\* the least k with base * GrowthFactor^k >= goal
GrowthSteps(base, goal, k) ==
    IF base >= goal THEN k ELSE GrowthSteps(base * GrowthFactor, goal, k + 1)

\* Math.ceil(ns.growthAnalyze(target, num / den)) for num / den >= 1
GrowthAnalyzeCeil(num, den) == GrowthSteps(den, num, 0)

\* faulty variant of getPrepNeedsV: Math.floor in place of Math.ceil
getPrepNeedsV_Floor(currentSec, minSec, currentMoney, maxMoney) ==
    LET secToReduce == Max(0, currentSec - minSec)
        weakenThreads == FloorDiv(secToReduce, WEAKEN_AMOUNT)
        baseMoney == Max(currentMoney, 1)
        growThreads == IF currentMoney * 100 < maxMoney * 99
                       THEN GrowthAnalyzeCeil(maxMoney, baseMoney)
                       ELSE 0
    IN  [weakenThreads |-> weakenThreads, growThreads |-> growThreads]

\* getPrepNeeds on the four values it reads
getPrepNeedsV(currentSec, minSec, currentMoney, maxMoney) ==
    LET secToReduce == Max(0, currentSec - minSec)
        weakenThreads == CeilDiv(secToReduce, WEAKEN_AMOUNT)
        baseMoney == Max(currentMoney, 1)
        growThreads == IF currentMoney * 100 < maxMoney * 99
                       THEN GrowthAnalyzeCeil(maxMoney, baseMoney)
                       ELSE 0
    IN  [weakenThreads |-> weakenThreads, growThreads |-> growThreads]

getPrepNeeds(t) ==
    getPrepNeedsV(secLevel[t], ServerMinSecurity(t), moneyAvail[t], ServerMaxMoney(t))

\* faulty variant of BatchHackThreads: the lower bound is 0
BatchHackThreads_MinZero(hackAnalyze) == Max(0, FloorDiv(hackAnalyze, 10))

\* line 67: Math.max(1, Math.floor(ns.hackAnalyzeThreads(target, moneyToSteal)))
\* for a host value of hackAnalyze tenths of a thread
BatchHackThreads(hackAnalyze) == Max(1, FloorDiv(hackAnalyze, 10))

\* lines 74-77: the weaken threads that counter the security increases,
\* computed in JavaScript numbers
BatchWeakenThreads(hackThreads, growThreads) ==
    LET hackSecIncrease == F64MulInt(HackSecurityIncrease, hackThreads)
        growSecIncrease == F64MulInt(GrowSecurityIncrease, growThreads)
        totalSecIncrease == F64Add(hackSecIncrease, growSecIncrease)
    IN  F64Ceil(F64Div(totalSecIncrease, WeakenAmount))

\* calculateBatchSize on the two values the host returns: hackAnalyze is
\* ns.hackAnalyzeThreads(target, moneyToSteal) in tenths of a thread,
\* growThreads is Math.ceil(ns.growthAnalyze(target, growMultiplier))
calculateBatchSizeV(hackAnalyze, growThreads) ==
    LET hackThreads == BatchHackThreads(hackAnalyze)
    IN  [hackThreads |-> hackThreads, growThreads |-> growThreads,
         weakenThreads |-> BatchWeakenThreads(hackThreads, growThreads)]

\* the batch of every target; the host values of the model do not change
\* (growMultiplier = 1 / (1 - 0.05) = 100 / 95)
BatchSizes ==
    [n1 |-> calculateBatchSizeV(HackAnalyzeThreads("n1"),
                                GrowthAnalyzeCeil(100, 95)),
     n2 |-> calculateBatchSizeV(HackAnalyzeThreads("n2"),
                                GrowthAnalyzeCeil(100, 95))]

\* calculateBatchSize(ns, target, 0.05)
calculateBatchSize(t) == BatchSizes[t]

RECURSIVE Bfs(_, _, _)
\* the while loop of getAllServers: queue, visited set, servers so far
Bfs(queue, visited, servers) ==
    IF queue = <<>> THEN servers
    ELSE LET current == Head(queue)
             nbrs == Scan(current)
             fresh == SelectSeq(nbrs, LAMBDA n : n \notin visited)
         IN  Bfs(Tail(queue) \o fresh,
                 visited \cup {fresh[i] : i \in 1..Len(fresh)},
                 Append(servers, current))

getAllServers == Bfs(<<"home">>, {"home"}, <<>>)

\* calculateTargetScore as a fraction ScoreNum / ScoreDen, up to a positive
\* constant factor common to all targets
ScoreNum(t) == ServerMaxMoney(t) * HackChance(t)
\* faulty variant of ScoreDen: prepGrowTime is left out of totalPrepTime
ScoreDen_NoGrowEstimate(t) ==
    LET secToReduce == Max(0, secLevel[t] - ServerMinSecurity(t))
        cycleTime == Max(HackTime(t), Max(WeakenTime(t), GrowTime(t)))
    IN  cycleTime * (50 * OneHour + secToReduce * WeakenTime(t))

ScoreDen(t) ==
    LET secToReduce == Max(0, secLevel[t] - ServerMinSecurity(t))
        low == IF moneyAvail[t] * 2 < ServerMaxMoney(t) THEN 1 ELSE 0
        cycleTime == Max(HackTime(t), Max(WeakenTime(t), GrowTime(t)))
    IN  cycleTime * (50 * OneHour + secToReduce * WeakenTime(t)
                     + 500 * GrowTime(t) * low)

\* adjustedScore in dollars per second, as the fraction num / den: with the
\* chance in tenths, the times in minutes and the security in thousandths,
\*   moneyPerSecond = maxMoney * chance / (12000 * cycleTime)
\*   1 + totalPrepTime / 3600000
\*       = (3000 + secToReduce * weakenTime + 500 * prepGrow) / 3000
calculateTargetScore(t) == [num |-> ScoreNum(t), den |-> 4 * ScoreDen(t)]

\* score(a) > score(b)
ScoreGreater(a, b) == ScoreNum(a) * ScoreDen(b) > ScoreNum(b) * ScoreDen(a)

RECURSIVE InsertByScore_Ascending(_, _)
\* faulty variant of InsertByScore: the comparator is a.score - b.score
InsertByScore_Ascending(t, sorted) ==
    IF sorted = <<>> THEN <<t>>
    ELSE IF ScoreGreater(Head(sorted), t) THEN <<t>> \o sorted
    ELSE <<Head(sorted)>> \o InsertByScore_Ascending(t, Tail(sorted))

RECURSIVE InsertByScore(_, _)
\* stable insertion: t goes after every entry whose score is >= its own
InsertByScore(t, sorted) ==
    IF sorted = <<>> THEN <<t>>
    ELSE IF ScoreGreater(t, Head(sorted)) THEN <<t>> \o sorted
    ELSE <<Head(sorted)>> \o InsertByScore(t, Tail(sorted))

RECURSIVE SortByScore_LastFirst(_, _)
\* faulty variant of SortByScore: an unstable sort, equal scores come out in
\* the reverse of their order in the array
SortByScore_LastFirst(scored, sorted) ==
    IF scored = <<>> THEN sorted
    ELSE SortByScore_LastFirst(SubSeq(scored, 1, Len(scored) - 1),
                               InsertByScore(scored[Len(scored)], sorted))

RECURSIVE SortByScore(_, _)
\* scored.sort((a, b) => b.score - a.score), a stable sort
SortByScore(scored, sorted) ==
    IF scored = <<>> THEN sorted
    ELSE SortByScore(Tail(scored), InsertByScore(Head(scored), sorted))

\* faulty variant of getBestTargets: the sorted array is returned whole
getBestTargets_NoSlice(count) ==
    LET eligible(h) == /\ h # "home"
                       /\ h \notin PurchasedServers
                       /\ RequiredHackingSkill(h) <= hackingLevel
                       /\ ServerMaxMoney(h) # 0
        scored == SelectSeq(getAllServers, eligible)
    IN  SortByScore(scored, <<>>)

getBestTargets(count) ==
    LET eligible(h) == /\ h # "home"
                       /\ h \notin PurchasedServers
                       /\ RequiredHackingSkill(h) <= hackingLevel
                       /\ ServerMaxMoney(h) # 0
        scored == SelectSeq(getAllServers, eligible)
        ranked == SortByScore(scored, <<>>)
    IN  SubSeq(ranked, 1, Min(count, Len(ranked)))

(***************************************************************************)
(* scheduler.js: buildRamPool                                              *)
(***************************************************************************)
\* faulty variant of PoolEntry: the reservation is left out of the usedRam of 'home'
PoolEntry_NoReservationInUsed(hostname) ==
    LET maxRam == ServerMaxRam(hostname)
        used == usedRam[hostname]
        freeRam == maxRam - used
        adjustedFree == Max(0, freeRam - reservedRam)
    IN  IF ~hasRoot[hostname] THEN <<>>
        ELSE IF hostname = "home"
        THEN IF adjustedFree > WORKER_RAM
             THEN <<[hostname |-> hostname, maxRam |-> maxRam,
                     usedRam |-> used, freeRam |-> adjustedFree]>>
             ELSE <<>>
        ELSE IF freeRam > WORKER_RAM
             THEN <<[hostname |-> hostname, maxRam |-> maxRam,
                     usedRam |-> used, freeRam |-> freeRam]>>
             ELSE <<>>

\* faulty variant of PoolEntryV: a node with exactly one unit's cost free is admitted
PoolEntryV_AdmitsEqual(hostname, rooted, maxRam, used, reserved) ==
    LET freeRam == maxRam - used
        adjustedFree == Max(0, freeRam - reserved)
    IN  IF ~rooted THEN <<>>
        ELSE IF hostname = "home"
        THEN IF adjustedFree >= WORKER_RAM
             THEN <<[hostname |-> hostname, maxRam |-> maxRam,
                     usedRam |-> used + reserved, freeRam |-> adjustedFree]>>
             ELSE <<>>
        ELSE IF freeRam >= WORKER_RAM
             THEN <<[hostname |-> hostname, maxRam |-> maxRam,
                     usedRam |-> used, freeRam |-> freeRam]>>
             ELSE <<>>

\* the body of the for loop of buildRamPool on the values ns returns for a
\* host, with the reservation of the script: the entries pushed, none or one
PoolEntryV(hostname, rooted, maxRam, used, reserved) ==
    LET freeRam == maxRam - used
        adjustedFree == Max(0, freeRam - reserved)
    IN  IF ~rooted THEN <<>>
        ELSE IF hostname = "home"
        THEN IF adjustedFree > WORKER_RAM
             THEN <<[hostname |-> hostname, maxRam |-> maxRam,
                     usedRam |-> used + reserved, freeRam |-> adjustedFree]>>
             ELSE <<>>
        ELSE IF freeRam > WORKER_RAM
             THEN <<[hostname |-> hostname, maxRam |-> maxRam,
                     usedRam |-> used, freeRam |-> freeRam]>>
             ELSE <<>>

\* the entries one host contributes to the pool of the scheduler: none or one
PoolEntry(hostname) ==
    PoolEntryV(hostname, hasRoot[hostname], ServerMaxRam(hostname),
               usedRam[hostname], reservedRam)

RECURSIVE InsertByFree_Ascending(_, _)
\* faulty variant of InsertByFree: the comparator is a.freeRam - b.freeRam
InsertByFree_Ascending(e, sorted) ==
    IF sorted = <<>> THEN <<e>>
    ELSE IF e.freeRam < Head(sorted).freeRam THEN <<e>> \o sorted
    ELSE <<Head(sorted)>> \o InsertByFree_Ascending(e, Tail(sorted))

RECURSIVE InsertByFree(_, _)
\* stable insertion: e goes after every entry whose freeRam is >= its own
InsertByFree(e, sorted) ==
    IF sorted = <<>> THEN <<e>>
    ELSE IF e.freeRam > Head(sorted).freeRam THEN <<e>> \o sorted
    ELSE <<Head(sorted)>> \o InsertByFree(e, Tail(sorted))

RECURSIVE SortByFree(_, _)
\* pool.sort((a, b) => b.freeRam - a.freeRam), a stable sort
SortByFree(pool, sorted) ==
    IF pool = <<>> THEN sorted
    ELSE SortByFree(Tail(pool), InsertByFree(Head(pool), sorted))

RECURSIVE PushEntries(_)
\* the for loop of buildRamPool over the server list
PushEntries(servers) ==
    IF servers = <<>> THEN <<>>
    ELSE PoolEntry(Head(servers)) \o PushEntries(Tail(servers))

\* faulty variant of buildRamPool: the pool of the cycle before is used again
buildRamPool_KeepsPool(servers) ==
    IF ramPool # <<>> THEN ramPool
    ELSE SortByFree(PushEntries(servers), <<>>)

buildRamPool(servers) == SortByFree(PushEntries(servers), <<>>)

\* faulty variant of ReservedRamOf: every script reserves what the scheduler reserves
ReservedRamOf_Scheduler(script) == reservedRam

\* the reservation on 'home' of each script that builds a pool
ReservedRamOf(script) ==
    CASE script = "orchestrator" -> orchestratorReservedRam
      [] script = "status-reporter" -> statusReservedRam
      [] OTHER -> reservedRam

RECURSIVE PushEntriesV(_, _, _)
\* the for loop of buildRamPool over the server list, ns[h] the values the
\* host returns for h
PushEntriesV(servers, ns, reserved) ==
    IF servers = <<>> THEN <<>>
    ELSE LET h == Head(servers)
         IN  PoolEntryV(h, ns[h].hasRoot, ns[h].maxRam, ns[h].usedRam, reserved)
             \o PushEntriesV(Tail(servers), ns, reserved)

\* buildRamPool of scheduler.js, status-reporter.js or orchestrator.js
buildRamPoolOf(script, servers, ns) ==
    SortByFree(PushEntriesV(servers, ns, ReservedRamOf(script)), <<>>)

(***************************************************************************)
(* Helpers over pools and deployments.                                     *)
(***************************************************************************)
RECURSIVE SumFree(_)
SumFree(pool) ==
    IF pool = <<>> THEN 0 ELSE Head(pool).freeRam + SumFree(Tail(pool))

RECURSIVE SumSlots(_)
\* the number of whole worker threads the nodes of a pool can hold
SumSlots(pool) ==
    IF pool = <<>> THEN 0
    ELSE FloorDiv(Head(pool).freeRam, WORKER_RAM) + SumSlots(Tail(pool))

RECURSIVE SumThreads(_)
SumThreads(deployments) ==
    IF deployments = <<>> THEN 0
    ELSE Head(deployments).threads + SumThreads(Tail(deployments))

NoCall == [active |-> FALSE]
NoValues == [currentSec |-> 0, minSec |-> 0, currentMoney |-> 0, maxMoney |-> 0]
NoAnalysis == [fn |-> "none", value |-> FALSE]
EmptyMap == [p \in {} |-> 0]

\* no launcher has been run, the manager has not run a cycle
SystemIdle ==
    /\ launcherPc = "off"
    /\ launcherCycle = 0
    /\ managerPid = 0
    /\ schedulerPid = 0
    /\ managerHost = "home"
    /\ schedulerHost = "home"
    /\ lastDeployedServer = ""
    /\ port3 = <<>>
    /\ startRequests = <<>>
    /\ knownServers = {}
    /\ rootCalls = [h \in Hosts |-> 0]
    /\ managerCycle = 0
    /\ purchased = PurchasedServers
    /\ openers = 0

\* the status loop has not run: nothing is published, nothing is shared
ReporterIdle ==
    /\ port2 = <<>>
    /\ statusPc = "sleep"
    /\ statusIteration = 0
    /\ activeOps = EmptyMap
    /\ sharedState = [targets |-> <<>>, servers |-> <<>>]

(***************************************************************************)
(* Initial state: the scripts have just started, no port holds data.       *)
(***************************************************************************)
HomeUsed == {0, 48}
WorkerUsed == {0, 20, 28}
Gaps == {0, 100, 200}
MoneyPcts == {0, 50, 100}
Levels == {1, 50}

Init ==
    /\ \E r \in BOOLEAN :
         hasRoot = [h \in Hosts |-> IF h = "n1" THEN r ELSE h # "n2"]
    /\ \E hu \in HomeUsed, wu \in WorkerUsed :
         usedRam = [h \in Hosts |->
                      IF h = "home" THEN hu ELSE IF h = "worker-0" THEN wu ELSE 0]
    /\ \E g \in [TargetHosts -> Gaps] :
         secLevel = [t \in TargetHosts |-> ServerMinSecurity(t) + g[t]]
    /\ \E m \in [TargetHosts -> MoneyPcts] :
         moneyAvail = [t \in TargetHosts |-> (ServerMaxMoney(t) * m[t]) \div 100]
    /\ hackingLevel \in Levels
    /\ procs = EmptyMap
    /\ nextPid = 1
    /\ now = 0
    /\ port1 = <<>>
    /\ port4 = <<>>
    /\ pc = "sleep"
    /\ cycle = 0
    /\ ramPool = <<>>
    /\ targets = <<>>
    /\ tgtIdx = 1
    /\ pending = <<>>
    /\ call = NoCall
    /\ operationStartTimes = EmptyMap
    /\ calls = <<>>
    /\ requests = <<>>
    /\ nsValues = NoValues
    /\ analysis = NoAnalysis
    /\ ReporterIdle
    /\ SystemIdle

(***************************************************************************)
(* The manager (scripts/pre-commit.js lines 123-129) publishes the list of *)
(* all servers: clearPort followed by writePort.                           *)
(***************************************************************************)
ManagerPublish ==
    /\ pc = "sleep"
    /\ statusPc = "sleep"
    /\ HasNoData(port1)
    /\ port1' = WritePort(ClearPort(port1), [servers |-> getAllServers])
    /\ UNCHANGED analyzerVars
    /\ UNCHANGED systemVars
    /\ UNCHANGED reporterVars
    /\ UNCHANGED <<hasRoot, usedRam, secLevel, moneyAvail, hackingLevel, procs,
                   nextPid, now, port4, pc, cycle, ramPool, targets, tgtIdx,
                   pending, call, operationStartTimes, calls, requests>>

(***************************************************************************)
(* scheduler.js main: one iteration of the while loop, up to the for loop. *)
(***************************************************************************)
EmptyState(servers) ==
    [servers |-> servers, targets |-> <<>>, operationStartTimes |-> EmptyMap,
     timestamp |-> now]

\* faulty variant of CycleNoData: an empty state is published before the sleep
CycleNoData_PublishesEmpty ==
    /\ pc = "sleep"
    /\ statusPc = "sleep"
    /\ cycle < MaxCycles
    /\ HasNoData(port1)
    /\ port4' = WritePort(ClearPort(port4), EmptyState(<<>>))
    /\ cycle' = cycle + 1
    /\ now' = now + 1
    /\ call' = NoCall
    /\ calls' = <<>>
    /\ requests' = <<>>
    /\ UNCHANGED analyzerVars
    /\ UNCHANGED systemVars
    /\ UNCHANGED reporterVars
    /\ UNCHANGED <<hasRoot, usedRam, secLevel, moneyAvail, hackingLevel, procs,
                   nextPid, port1, pc, ramPool, targets, tgtIdx,
                   pending, operationStartTimes>>

\* lines 241-246: no server list yet, sleep and retry
CycleNoData ==
    /\ pc = "sleep"
    /\ statusPc = "sleep"
    /\ cycle < MaxCycles
    /\ HasNoData(port1)
    /\ cycle' = cycle + 1
    /\ now' = now + 1
    /\ call' = NoCall
    /\ calls' = <<>>
    /\ requests' = <<>>
    /\ UNCHANGED analyzerVars
    /\ UNCHANGED systemVars
    /\ UNCHANGED reporterVars
    /\ UNCHANGED <<hasRoot, usedRam, secLevel, moneyAvail, hackingLevel, procs,
                   nextPid, port1, port4, pc, ramPool, targets, tgtIdx,
                   pending, operationStartTimes>>

\* lines 248-263: the pool is empty, publish an empty state and sleep
CycleNoRam ==
    /\ pc = "sleep"
    /\ statusPc = "sleep"
    /\ cycle < MaxCycles
    /\ ~HasNoData(port1)
    /\ buildRamPool(Peek(port1).servers) = <<>>
    /\ ramPool' = <<>>
    /\ port4' = WritePort(ClearPort(port4), EmptyState(Peek(port1).servers))
    /\ cycle' = cycle + 1
    /\ now' = now + 1
    /\ call' = NoCall
    /\ calls' = <<>>
    /\ requests' = <<>>
    /\ UNCHANGED analyzerVars
    /\ UNCHANGED systemVars
    /\ UNCHANGED reporterVars
    /\ UNCHANGED <<hasRoot, usedRam, secLevel, moneyAvail, hackingLevel, procs,
                   nextPid, port1, pc, targets, tgtIdx, pending,
                   operationStartTimes>>

\* lines 265-278: no valid target, publish an empty state and sleep
CycleNoTargets ==
    /\ pc = "sleep"
    /\ statusPc = "sleep"
    /\ cycle < MaxCycles
    /\ ~HasNoData(port1)
    /\ buildRamPool(Peek(port1).servers) # <<>>
    /\ getBestTargets(TargetCount) = <<>>
    /\ ramPool' = buildRamPool(Peek(port1).servers)
    /\ targets' = <<>>
    /\ port4' = WritePort(ClearPort(port4), EmptyState(Peek(port1).servers))
    /\ cycle' = cycle + 1
    /\ now' = now + 1
    /\ call' = NoCall
    /\ calls' = <<>>
    /\ requests' = <<>>
    /\ UNCHANGED analyzerVars
    /\ UNCHANGED systemVars
    /\ UNCHANGED reporterVars
    /\ UNCHANGED <<hasRoot, usedRam, secLevel, moneyAvail, hackingLevel, procs,
                   nextPid, port1, pc, tgtIdx, pending,
                   operationStartTimes>>

\* lines 248-289: pool and targets exist, enter the for loop over the targets
CycleBegin ==
    /\ pc = "sleep"
    /\ statusPc = "sleep"
    /\ cycle < MaxCycles
    /\ ~HasNoData(port1)
    /\ buildRamPool(Peek(port1).servers) # <<>>
    /\ getBestTargets(TargetCount) # <<>>
    /\ ramPool' = buildRamPool(Peek(port1).servers)
    /\ targets' = getBestTargets(TargetCount)
    /\ operationStartTimes' = EmptyMap
    /\ tgtIdx' = 1
    /\ pending' = <<>>
    /\ pc' = "target"
    /\ cycle' = cycle + 1
    /\ call' = NoCall
    /\ calls' = <<>>
    /\ requests' = <<>>
    /\ UNCHANGED analyzerVars
    /\ UNCHANGED systemVars
    /\ UNCHANGED reporterVars
    /\ UNCHANGED <<hasRoot, usedRam, secLevel, moneyAvail, hackingLevel, procs,
                   nextPid, now, port1, port4>>

(***************************************************************************)
(* scheduler.js: schedulePrepOperations and scheduleHWGWBatch, as the      *)
(* scheduleOperation calls each of them makes, in order.                   *)
(***************************************************************************)
\* faulty variant of schedulePrepOperations: grow is tried before weaken
schedulePrepOperations_GrowFirst(t) ==
    LET prepNeeds == getPrepNeeds(t)
    IN  IF prepNeeds.growThreads > 0
        THEN <<[opType |-> "grow", threads |-> prepNeeds.growThreads]>>
        ELSE IF prepNeeds.weakenThreads > 0
        THEN <<[opType |-> "weaken", threads |-> prepNeeds.weakenThreads]>>
        ELSE <<>>

schedulePrepOperations(t) ==
    LET prepNeeds == getPrepNeeds(t)
    IN  IF prepNeeds.weakenThreads > 0
        THEN <<[opType |-> "weaken", threads |-> prepNeeds.weakenThreads]>>
        ELSE IF prepNeeds.growThreads > 0
        THEN <<[opType |-> "grow", threads |-> prepNeeds.growThreads]>>
        ELSE <<>>

\* faulty variant of scheduleHWGWBatch: weaken is scheduled before grow
scheduleHWGWBatch_WeakenBeforeGrow(t) ==
    LET batch == calculateBatchSize(t)
    IN  <<[opType |-> "hack", threads |-> batch.hackThreads],
          [opType |-> "weaken", threads |-> batch.weakenThreads],
          [opType |-> "grow", threads |-> batch.growThreads]>>

scheduleHWGWBatch(t) ==
    LET batch == calculateBatchSize(t)
    IN  <<[opType |-> "hack", threads |-> batch.hackThreads],
          [opType |-> "grow", threads |-> batch.growThreads],
          [opType |-> "weaken", threads |-> batch.weakenThreads]>>

\* lines 291-296: the target is not prepped
RoutePrep ==
    /\ pc = "target"
    /\ tgtIdx <= Len(targets)
    /\ ~isPrepped(targets[tgtIdx])
    /\ pending' = schedulePrepOperations(targets[tgtIdx])
    /\ pc' = "calls"
    /\ UNCHANGED analyzerVars
    /\ UNCHANGED systemVars
    /\ UNCHANGED reporterVars
    /\ UNCHANGED <<hasRoot, usedRam, secLevel, moneyAvail, hackingLevel, procs,
                   nextPid, now, port1, port4, cycle, ramPool, targets, tgtIdx,
                   call, operationStartTimes, calls, requests>>

\* lines 297-300: the target is prepped
RouteBatch ==
    /\ pc = "target"
    /\ tgtIdx <= Len(targets)
    /\ isPrepped(targets[tgtIdx])
    /\ pending' = scheduleHWGWBatch(targets[tgtIdx])
    /\ pc' = "calls"
    /\ UNCHANGED analyzerVars
    /\ UNCHANGED systemVars
    /\ UNCHANGED reporterVars
    /\ UNCHANGED <<hasRoot, usedRam, secLevel, moneyAvail, hackingLevel, procs,
                   nextPid, now, port1, port4, cycle, ramPool, targets, tgtIdx,
                   call, operationStartTimes, calls, requests>>

\* the calls of this target are made: the for loop goes to the next target
TargetDone ==
    /\ pc = "calls"
    /\ pending = <<>>
    /\ tgtIdx' = tgtIdx + 1
    /\ pc' = "target"
    /\ UNCHANGED analyzerVars
    /\ UNCHANGED systemVars
    /\ UNCHANGED reporterVars
    /\ UNCHANGED <<hasRoot, usedRam, secLevel, moneyAvail, hackingLevel, procs,
                   nextPid, now, port1, port4, cycle, ramPool, targets,
                   pending, call, operationStartTimes, calls, requests>>

(***************************************************************************)
(* scheduler.js: scheduleOperation, one action per step of its for loop.   *)
(***************************************************************************)
\* faulty variant of StartOperation: the units the call before left unplaced
\* are added to the demand
StartOperation_CarriesBacklog ==
    /\ pc = "calls"
    /\ pending # <<>>
    /\ LET backlog == IF call.active THEN call.threadsRemaining ELSE 0
           threads == Head(pending).threads + backlog
       IN  /\ call' = [active |-> TRUE, done |-> FALSE,
                       opType |-> Head(pending).opType,
                       target |-> targets[tgtIdx],
                       threads |-> threads,
                       threadsRemaining |-> threads,
                       idx |-> 1,
                       deployments |-> <<>>,
                       startTime |-> now,
                       pool0 |-> ramPool,
                       failures |-> 0]
           /\ calls' = Append(calls, [target |-> targets[tgtIdx],
                                      opType |-> Head(pending).opType,
                                      threads |-> threads])
    /\ pending' = Tail(pending)
    /\ pc' = "loop"
    /\ UNCHANGED analyzerVars
    /\ UNCHANGED systemVars
    /\ UNCHANGED reporterVars
    /\ UNCHANGED <<hasRoot, usedRam, secLevel, moneyAvail, hackingLevel, procs,
                   nextPid, now, port1, port4, cycle, ramPool, targets, tgtIdx,
                   operationStartTimes, requests>>

\* lines 422-426: entry of scheduleOperation
StartOperation ==
    /\ pc = "calls"
    /\ pending # <<>>
    /\ call' = [active |-> TRUE, done |-> FALSE,
                opType |-> Head(pending).opType,
                target |-> targets[tgtIdx],
                threads |-> Head(pending).threads,
                threadsRemaining |-> Head(pending).threads,
                idx |-> 1,
                deployments |-> <<>>,
                startTime |-> now,
                pool0 |-> ramPool,
                failures |-> 0]
    /\ calls' = Append(calls, [target |-> targets[tgtIdx],
                               opType |-> Head(pending).opType,
                               threads |-> Head(pending).threads])
    /\ pending' = Tail(pending)
    /\ pc' = "loop"
    /\ UNCHANGED analyzerVars
    /\ UNCHANGED systemVars
    /\ UNCHANGED reporterVars
    /\ UNCHANGED <<hasRoot, usedRam, secLevel, moneyAvail, hackingLevel, procs,
                   nextPid, now, port1, port4, cycle, ramPool, targets, tgtIdx,
                   operationStartTimes, requests>>

RECURSIVE FailCount(_)
\* the number of failed requests of a request log
FailCount(reqs) ==
    IF reqs = <<>> THEN 0
    ELSE (IF Head(reqs).result = "ok" THEN 0 ELSE 1) + FailCount(Tail(reqs))

\* faulty variant of InLoop: the break on threadsRemaining <= 0 is missing
InLoop_NoBreak == pc = "loop" /\ call.idx <= Len(ramPool)

InLoop == pc = "loop" /\ call.idx <= Len(ramPool) /\ call.threadsRemaining > 0

\* faulty variant of threadsAvailable: Math.ceil in place of Math.floor
threadsAvailable_Ceil == CeilDiv(ramPool[call.idx].freeRam, WORKER_RAM)

threadsAvailable == FloorDiv(ramPool[call.idx].freeRam, WORKER_RAM)

\* faulty variant of threadsToRun: the remaining unit count is ignored
threadsToRun_IgnoresRemaining == threadsAvailable

threadsToRun == Min(call.threadsRemaining, threadsAvailable)

\* faulty variant of PlaceThreads: the unit cost is left out of ramUsed
PlaceThreads_NoUnitCost(server, n) ==
    [server EXCEPT !.freeRam = @ - n, !.usedRam = @ + n]

\* lines 458-461: the RAM tracking of a node after placing n threads on it
PlaceThreads(server, n) ==
    LET ramUsed == n * WORKER_RAM
    IN  [server EXCEPT !.freeRam = @ - ramUsed, !.usedRam = @ + ramUsed]

\* lines 443-462: the call after a successful dispatch of n threads as pid
AfterSuccess(c, pid, host, n) ==
    [c EXCEPT !.deployments = Append(@, [pid |-> pid, host |-> host,
                                         threads |-> n]),
              !.threadsRemaining = @ - n,
              !.idx = @ + 1]

\* faulty variant of RecordStart: the dispatch is not recorded
RecordStart_Unrecorded(map, pid, c) == map

\* lines 451-456: operationStartTimes[pid] = {target, type, startTime}
RecordStart(map, pid, c) ==
    (pid :> [target |-> c.target, type |-> c.opType,
             startTime |-> c.startTime]) @@ map

\* faulty variant of AfterFailure: the loop stays at the failed node
AfterFailure_Retry(c) == [c EXCEPT !.failures = @ + 1]

\* lines 463-469: the call after a failed dispatch, the loop goes on
AfterFailure(c) == [c EXCEPT !.idx = @ + 1, !.failures = @ + 1]

\* the request ns.exec(workerScript, server.hostname, threadsToRun, target)
Request(result) ==
    [call |-> Len(calls), target |-> call.target, opType |-> call.opType,
     host |-> ramPool[call.idx].hostname, threads |-> threadsToRun,
     remaining |-> call.threadsRemaining, free |-> ramPool[call.idx].freeRam,
     result |-> result]

\* lines 433-436: the node holds no whole thread
LoopSkip ==
    /\ InLoop
    /\ threadsAvailable <= 0
    /\ call' = [call EXCEPT !.idx = @ + 1]
    /\ UNCHANGED analyzerVars
    /\ UNCHANGED systemVars
    /\ UNCHANGED reporterVars
    /\ UNCHANGED <<hasRoot, usedRam, secLevel, moneyAvail, hackingLevel, procs,
                   nextPid, now, port1, port4, pc, cycle, ramPool, targets,
                   tgtIdx, pending, operationStartTimes, calls, requests>>

\* lines 441-462: ns.exec returns a pid > 0; the game starts the process
ExecOk ==
    /\ InLoop
    /\ threadsAvailable > 0
    /\ LET server == ramPool[call.idx]
           pid == nextPid
           ramUsed == threadsToRun * WORKER_RAM
       IN  /\ call' = AfterSuccess(call, pid, server.hostname, threadsToRun)
           /\ operationStartTimes' = RecordStart(operationStartTimes, pid, call)
           /\ ramPool' = [ramPool EXCEPT
                            ![call.idx] = PlaceThreads(server, threadsToRun)]
           /\ procs' = (pid :> [host |-> server.hostname, type |-> call.opType,
                                target |-> call.target,
                                threads |-> threadsToRun]) @@ procs
           /\ usedRam' = [usedRam EXCEPT ![server.hostname] = @ + ramUsed]
           /\ nextPid' = nextPid + 1
    /\ requests' = Append(requests, Request("ok"))
    /\ UNCHANGED analyzerVars
    /\ UNCHANGED systemVars
    /\ UNCHANGED reporterVars
    /\ UNCHANGED <<hasRoot, secLevel, moneyAvail, hackingLevel, now, port1,
                   port4, pc, cycle, targets, tgtIdx, pending, calls>>

\* lines 463-466: ns.exec returns 0
ExecZero ==
    /\ InLoop
    /\ threadsAvailable > 0
    /\ FailCount(requests) < MaxFailures
    /\ call' = AfterFailure(call)
    /\ requests' = Append(requests, Request("zero"))
    /\ UNCHANGED analyzerVars
    /\ UNCHANGED systemVars
    /\ UNCHANGED reporterVars
    /\ UNCHANGED <<hasRoot, usedRam, secLevel, moneyAvail, hackingLevel, procs,
                   nextPid, now, port1, port4, pc, cycle, ramPool, targets,
                   tgtIdx, pending, operationStartTimes, calls>>

\* lines 467-469: ns.exec throws
ExecThrow ==
    /\ InLoop
    /\ threadsAvailable > 0
    /\ FailCount(requests) < MaxFailures
    /\ call' = AfterFailure(call)
    /\ requests' = Append(requests, Request("throw"))
    /\ UNCHANGED analyzerVars
    /\ UNCHANGED systemVars
    /\ UNCHANGED reporterVars
    /\ UNCHANGED <<hasRoot, usedRam, secLevel, moneyAvail, hackingLevel, procs,
                   nextPid, now, port1, port4, pc, cycle, ramPool, targets,
                   tgtIdx, pending, operationStartTimes, calls>>

\* lines 428-431 and 472: the loop breaks or ends, the deployments are returned
OperationReturn ==
    /\ pc = "loop"
    /\ (call.threadsRemaining <= 0 \/ call.idx > Len(ramPool))
    /\ call' = [call EXCEPT !.done = TRUE]
    /\ pc' = "calls"
    /\ UNCHANGED analyzerVars
    /\ UNCHANGED systemVars
    /\ UNCHANGED reporterVars
    /\ UNCHANGED <<hasRoot, usedRam, secLevel, moneyAvail, hackingLevel, procs,
                   nextPid, now, port1, port4, cycle, ramPool, targets, tgtIdx,
                   pending, operationStartTimes, calls, requests>>

\* lines 303-315: publish the state (clearPort, writePort) and sleep
Publish ==
    /\ pc = "target"
    /\ tgtIdx > Len(targets)
    /\ port4' = WritePort(ClearPort(port4),
                        [servers |-> Peek(port1).servers, targets |-> targets,
                         operationStartTimes |-> operationStartTimes,
                         timestamp |-> now])
    /\ pc' = "sleep"
    /\ now' = now + 1
    /\ UNCHANGED analyzerVars
    /\ UNCHANGED systemVars
    /\ UNCHANGED reporterVars
    /\ UNCHANGED <<hasRoot, usedRam, secLevel, moneyAvail, hackingLevel, procs,
                   nextPid, port1, cycle, ramPool, targets, tgtIdx, pending,
                   call, operationStartTimes, calls, requests>>

Next ==
    \/ ManagerPublish
    \/ CycleNoData
    \/ CycleNoRam
    \/ CycleNoTargets
    \/ CycleBegin
    \/ RoutePrep
    \/ RouteBatch
    \/ TargetDone
    \/ StartOperation
    \/ LoopSkip
    \/ ExecOk
    \/ ExecZero
    \/ ExecThrow
    \/ OperationReturn
    \/ Publish

Spec == Init /\ [][Next]_vars

(***************************************************************************)
(* scheduleOperation on its own: one call on a pool as it can stand in the *)
(* middle of a cycle (entries in any order, any free capacity), for a      *)
(* request of any size.                                                    *)
(***************************************************************************)
MaxUnits == 5
AllocHosts == <<"home", "worker-0", "n1">>
AllocFree == {2, 9, 12, 16}
Absent == 0 - 1

AllocPool(f) ==
    LET present == SelectSeq(AllocHosts, LAMBDA h : f[h] # Absent)
    IN  [i \in 1..Len(present) |->
           [hostname |-> present[i], maxRam |-> ServerMaxRam(present[i]),
            usedRam |-> ServerMaxRam(present[i]) - f[present[i]],
            freeRam |-> f[present[i]]]]

InitAlloc ==
    /\ hasRoot = [h \in Hosts |-> h # "n2"]
    /\ secLevel = [t \in TargetHosts |-> ServerMinSecurity(t) + 200]
    /\ moneyAvail = [t \in TargetHosts |-> ServerMaxMoney(t)]
    /\ hackingLevel = 50
    /\ procs = EmptyMap
    /\ nextPid = 1
    /\ now = 0
    /\ port1 = <<[servers |-> getAllServers]>>
    /\ port4 = <<>>
    /\ pc = "loop"
    /\ cycle = 1
    /\ targets = <<"n1">>
    /\ tgtIdx = 1
    /\ pending = <<>>
    /\ operationStartTimes = EmptyMap
    /\ requests = <<>>
    /\ nsValues = NoValues
    /\ analysis = NoAnalysis
    /\ ReporterIdle
    /\ SystemIdle
    /\ \E f \in [{"home", "worker-0", "n1"} -> AllocFree \cup {Absent}],
          u \in 0..MaxUnits :
         /\ ramPool = AllocPool(f)
         /\ usedRam = [h \in Hosts |->
                         IF h \notin DOMAIN f THEN 0
                         ELSE IF f[h] = Absent THEN ServerMaxRam(h)
                         ELSE ServerMaxRam(h) - f[h]
                              - (IF h = "home" THEN reservedRam ELSE 0)]
         /\ call = [active |-> TRUE, done |-> FALSE, opType |-> "weaken",
                    target |-> "n1", threads |-> u, threadsRemaining |-> u,
                    idx |-> 1, deployments |-> <<>>, startTime |-> 0,
                    pool0 |-> AllocPool(f), failures |-> 0]
         /\ calls = <<[target |-> "n1", opType |-> "weaken", threads |-> u]>>

NextAlloc ==
    \/ LoopSkip
    \/ ExecOk
    \/ ExecZero
    \/ ExecThrow
    \/ OperationReturn

SpecAlloc == InitAlloc /\ [][NextAlloc]_vars

(***************************************************************************)
(* analyzer.js on its own: isPrepped and getPrepNeeds called on a target   *)
(* whose four values (security, minimum security, money, maximum money)    *)
(* are any combination around the thresholds, and change between calls.    *)
(* Money is counted in dollars; the pairs are <<current, maximum>>.        *)
(***************************************************************************)
SecGaps == {0, 1, 49, 50, 51, 99, 100, 101, 200}
MinSecs == {1000, 3000}
MoneyPairs ==
    {<<0, 0>>, <<0, 1>>, <<1, 1>>, <<0, 2>>, <<1, 2>>}
        \cup {<<m, 100>> : m \in {0, 98, 99, 100}}
        \cup {<<m, 400>> : m \in {0, 98, 99, 100, 395, 396, 400}}

AnalyzerInputs ==
    {[currentSec |-> ms + g, minSec |-> ms,
      currentMoney |-> mp[1], maxMoney |-> mp[2]] :
        g \in SecGaps, ms \in MinSecs, mp \in MoneyPairs}

\* the scheduler does not run while the analyzer is exercised alone
LoopIdle ==
    /\ hasRoot = [h \in Hosts |-> h # "n2"]
    /\ usedRam = [h \in Hosts |-> 0]
    /\ procs = EmptyMap
    /\ nextPid = 1
    /\ now = 0
    /\ port1 = <<>>
    /\ port4 = <<>>
    /\ pc = "analyzer"
    /\ cycle = 0
    /\ ramPool = <<>>
    /\ targets = <<>>
    /\ tgtIdx = 1
    /\ pending = <<>>
    /\ call = NoCall
    /\ operationStartTimes = EmptyMap
    /\ calls = <<>>
    /\ requests = <<>>
    /\ ReporterIdle
    /\ SystemIdle

SchedulerIdle ==
    /\ LoopIdle
    /\ secLevel = [t \in TargetHosts |-> ServerMinSecurity(t)]
    /\ moneyAvail = [t \in TargetHosts |-> ServerMaxMoney(t)]
    /\ hackingLevel = 1

loopVars ==
    <<hasRoot, usedRam, procs, nextPid, now, port1, port4, pc, cycle, ramPool,
      targets, tgtIdx, pending, call, operationStartTimes, calls, requests,
      port2, statusPc, statusIteration, activeOps, sharedState,
      launcherVars, managerVars>>

schedulerVars ==
    <<hasRoot, usedRam, secLevel, moneyAvail, hackingLevel, procs, nextPid,
      now, port1, port4, pc, cycle, ramPool, targets, tgtIdx, pending, call,
      operationStartTimes, calls, requests,
      port2, statusPc, statusIteration, activeOps, sharedState,
      launcherVars, managerVars>>

InitAnalyzer ==
    /\ SchedulerIdle
    /\ nsValues \in AnalyzerInputs
    /\ analysis = NoAnalysis

\* isPrepped(ns, target) is called and returns
CallIsPrepped ==
    /\ pc = "analyzer"
    /\ analysis' = [fn |-> "isPrepped",
                    value |-> IsPreppedV(nsValues.currentSec, nsValues.minSec,
                                         nsValues.currentMoney,
                                         nsValues.maxMoney)]
    /\ UNCHANGED nsValues
    /\ UNCHANGED schedulerVars

\* getPrepNeeds(ns, target) is called and returns
CallGetPrepNeeds ==
    /\ pc = "analyzer"
    /\ analysis' = [fn |-> "getPrepNeeds",
                    value |-> getPrepNeedsV(nsValues.currentSec,
                                            nsValues.minSec,
                                            nsValues.currentMoney,
                                            nsValues.maxMoney)]
    /\ UNCHANGED nsValues
    /\ UNCHANGED schedulerVars

\* the game moves on: the values of the target change, the last result is
\* dropped by its caller
ValuesChange ==
    /\ pc = "analyzer"
    /\ nsValues' \in AnalyzerInputs \ {nsValues}
    /\ analysis' = NoAnalysis
    /\ UNCHANGED schedulerVars

NextAnalyzer ==
    \/ CallIsPrepped
    \/ CallGetPrepNeeds
    \/ ValuesChange

SpecAnalyzer == InitAnalyzer /\ [][NextAnalyzer]_vars

(***************************************************************************)
(* analyzer.js on its own: calculateBatchSize called on a target for which *)
(* the host returns any of a range of hack and growth analyses (a negative *)
(* hack analysis is the host's answer when the target holds less money     *)
(* than asked for), changing between calls.                                *)
(***************************************************************************)
HackAnalyses == {0 - 10, 0, 4, 9, 10, 30, 50, 250}
GrowAnalyses == {1, 2, 12, 13, 35, 36, 72}

BatchInputs ==
    {[hackAnalyze |-> h, growThreads |-> g] :
        h \in HackAnalyses, g \in GrowAnalyses}

InitBatch ==
    /\ SchedulerIdle
    /\ nsValues \in BatchInputs
    /\ analysis = NoAnalysis

\* calculateBatchSize(ns, target, 0.05) is called and returns
CallCalculateBatchSize ==
    /\ pc = "analyzer"
    /\ analysis' = [fn |-> "calculateBatchSize",
                    value |-> calculateBatchSizeV(nsValues.hackAnalyze,
                                                  nsValues.growThreads)]
    /\ UNCHANGED nsValues
    /\ UNCHANGED schedulerVars

\* the game moves on: the analyses of the target change
AnalysesChange ==
    /\ pc = "analyzer"
    /\ nsValues' \in BatchInputs \ {nsValues}
    /\ analysis' = NoAnalysis
    /\ UNCHANGED schedulerVars

NextBatch ==
    \/ CallCalculateBatchSize
    \/ AnalysesChange

SpecBatch == InitBatch /\ [][NextBatch]_vars

(***************************************************************************)
(* buildRamPool on its own: the pool builder of each script called on the  *)
(* server list while the hosts have any of a range of root access, maximum *)
(* and used RAM (around the admission threshold of each reservation),      *)
(* changing between calls.                                                 *)
(***************************************************************************)
Scripts == {"scheduler", "status-reporter", "orchestrator"}
\* <<maximum RAM, used RAM>> of 'home'
HomeRam == {<<256, 160>>, <<256, 200>>, <<256, 168>>, <<256, 169>>,
            <<256, 128>>, <<256, 129>>, <<128, 0>>, <<128, 48>>}
WorkerUsedRam == {0, 24, 25, 28}
\* <<root access, maximum RAM, used RAM>> of the two other hosts
N1Ram == {<<TRUE, 16, 0>>, <<TRUE, 16, 9>>, <<FALSE, 16, 0>>, <<FALSE, 16, 9>>}
N2Ram == {<<TRUE, 32, 0>>, <<FALSE, 32, 0>>, <<TRUE, 0, 0>>}

PoolInputs ==
    {[h \in Hosts |->
        CASE h = "home" ->
               [hasRoot |-> TRUE, maxRam |-> hm[1], usedRam |-> hm[2]]
          [] h = "worker-0" ->
               [hasRoot |-> TRUE, maxRam |-> ServerMaxRam(h), usedRam |-> wu]
          [] h = "n1" ->
               [hasRoot |-> a[1], maxRam |-> a[2], usedRam |-> a[3]]
          [] h = "n2" ->
               [hasRoot |-> b[1], maxRam |-> b[2], usedRam |-> b[3]]
          [] OTHER ->
               [hasRoot |-> TRUE, maxRam |-> ServerMaxRam(h), usedRam |-> 0]] :
        hm \in HomeRam, wu \in WorkerUsedRam, a \in N1Ram, b \in N2Ram}

InitPool ==
    /\ SchedulerIdle
    /\ nsValues \in PoolInputs
    /\ analysis = NoAnalysis

\* buildRamPool(ns, servers) of one of the scripts is called and returns
CallBuildRamPool ==
    /\ pc = "analyzer"
    /\ \E script \in Scripts :
         analysis' = [fn |-> "buildRamPool", script |-> script,
                      value |-> buildRamPoolOf(script, getAllServers, nsValues)]
    /\ UNCHANGED nsValues
    /\ UNCHANGED schedulerVars

\* the game moves on: root access and RAM use of the hosts change
HostsChange ==
    /\ pc = "analyzer"
    /\ nsValues' \in PoolInputs \ {nsValues}
    /\ analysis' = NoAnalysis
    /\ UNCHANGED schedulerVars

NextPool ==
    \/ CallBuildRamPool
    \/ HostsChange

SpecPool == InitPool /\ [][NextPool]_vars

(***************************************************************************)
(* getBestTargets on its own: the ranking is asked for with several counts *)
(* while the security and money of the targets and the player's hacking    *)
(* level change between calls (around the skill thresholds and around half *)
(* of the maximum money).                                                  *)
(***************************************************************************)
TargetMoneyPcts == {0, 49, 50, 100}
TargetLevels == {1, 10, 29, 30, 50}
Counts == {1, 2, TargetCount}

InitTargets ==
    /\ LoopIdle
    /\ \E g \in [TargetHosts -> Gaps] :
         secLevel = [t \in TargetHosts |-> ServerMinSecurity(t) + g[t]]
    /\ \E m \in [TargetHosts -> TargetMoneyPcts] :
         moneyAvail = [t \in TargetHosts |-> (ServerMaxMoney(t) * m[t]) \div 100]
    /\ hackingLevel \in TargetLevels
    /\ nsValues = NoValues
    /\ analysis = NoAnalysis

\* getBestTargets(ns, count) is called and returns
CallGetBestTargets ==
    /\ pc = "analyzer"
    /\ \E count \in Counts :
         analysis' = [fn |-> "getBestTargets", count |-> count,
                      value |-> getBestTargets(count)]
    /\ UNCHANGED <<secLevel, moneyAvail, hackingLevel, nsValues>>
    /\ UNCHANGED loopVars

\* line 112: the score of one server that passed the three filters
CallCalculateTargetScore ==
    /\ pc = "analyzer"
    /\ \E t \in TargetHosts :
         /\ RequiredHackingSkill(t) <= hackingLevel
         /\ analysis' = [fn |-> "calculateTargetScore", target |-> t,
                         value |-> calculateTargetScore(t)]
    /\ UNCHANGED <<secLevel, moneyAvail, hackingLevel, nsValues>>
    /\ UNCHANGED loopVars

\* the game moves on: the security level of a target changes
SecurityChanges ==
    /\ pc = "analyzer"
    /\ \E t \in TargetHosts, g \in Gaps :
         /\ secLevel[t] # ServerMinSecurity(t) + g
         /\ secLevel' = [secLevel EXCEPT ![t] = ServerMinSecurity(t) + g]
    /\ analysis' = NoAnalysis
    /\ UNCHANGED <<moneyAvail, hackingLevel, nsValues>>
    /\ UNCHANGED loopVars

\* the game moves on: the money of a target changes
MoneyChanges ==
    /\ pc = "analyzer"
    /\ \E t \in TargetHosts, m \in TargetMoneyPcts :
         /\ moneyAvail[t] # (ServerMaxMoney(t) * m) \div 100
         /\ moneyAvail' = [moneyAvail EXCEPT
                             ![t] = (ServerMaxMoney(t) * m) \div 100]
    /\ analysis' = NoAnalysis
    /\ UNCHANGED <<secLevel, hackingLevel, nsValues>>
    /\ UNCHANGED loopVars

\* the game moves on: the player's hacking level changes
LevelChanges ==
    /\ pc = "analyzer"
    /\ hackingLevel' \in TargetLevels \ {hackingLevel}
    /\ analysis' = NoAnalysis
    /\ UNCHANGED <<secLevel, moneyAvail, nsValues>>
    /\ UNCHANGED loopVars

NextTargets ==
    \/ CallGetBestTargets
    \/ CallCalculateTargetScore
    \/ SecurityChanges
    \/ MoneyChanges
    \/ LevelChanges

SpecTargets == InitTargets /\ [][NextTargets]_vars

(***************************************************************************)
(* status-reporter.js: getActiveOperations and the status it publishes.    *)
(***************************************************************************)
Kinds == {"hack", "grow", "weaken"}

RECURSIVE Ascending(_)
\* the numbers of a finite set, in ascending order
Ascending(S) ==
    IF S = {} THEN <<>>
    ELSE LET m == CHOOSE x \in S : \A y \in S : x <= y
         IN  <<m>> \o Ascending(S \ {m})

\* ns.ps(serverHost): the scripts running on a host; type stands for the
\* filename, target for args[0]
ps(serverHost) ==
    LET pids == Ascending({p \in DOMAIN procs : procs[p].host = serverHost})
    IN  [i \in 1..Len(pids) |->
           [host |-> serverHost, pid |-> pids[i], type |-> procs[pids[i]].type,
            target |-> procs[pids[i]].target,
            threads |-> procs[pids[i]].threads]]

RECURSIVE RunningScripts(_)
\* lines 181-185: the scripts of all servers, in the order the loops visit them
RunningScripts(allServers) ==
    IF allServers = <<>> THEN <<>>
    ELSE ps(Head(allServers)) \o RunningScripts(Tail(allServers))

\* lines 198-204: the duration picked by the filename of the script
Duration(type, target) ==
    CASE type = "hack" -> HackTime(target)
      [] type = "grow" -> GrowTime(target)
      [] type = "weaken" -> WeakenTime(target)
      [] OTHER -> 0

\* faulty variant of TimeRemaining: the difference is not clamped at 0
TimeRemaining_Unclamped(script, startTimes) ==
    IF script.pid \in DOMAIN startTimes
    THEN Duration(script.type, script.target)
             - (now - startTimes[script.pid].startTime)
    ELSE 0

\* lines 191-207
TimeRemaining(script, startTimes) ==
    IF script.pid \in DOMAIN startTimes
    THEN Max(0, Duration(script.type, script.target)
                    - (now - startTimes[script.pid].startTime))
    ELSE 0

\* lines 209-214
OpData(script, startTimes) ==
    [host |-> script.host, threads |-> script.threads,
     timeRemaining |-> TimeRemaining(script, startTimes), pid |-> script.pid]

\* faulty variant of OpsOf: the scripts of every target are taken
OpsOf_AnyTarget(target, kind, startTimes) ==
    LET mine == SelectSeq(RunningScripts(getAllServers),
                          LAMBDA sc : sc.type = kind)
    IN  [i \in 1..Len(mine) |-> OpData(mine[i], startTimes)]

\* lines 185-222: the entries pushed to activeOps[target][kind]
OpsOf(target, kind, startTimes) ==
    LET mine == SelectSeq(RunningScripts(getAllServers),
                          LAMBDA sc : sc.target = target /\ sc.type = kind)
    IN  [i \in 1..Len(mine) |-> OpData(mine[i], startTimes)]

\* getActiveOperations(ns, targetHostnames, operationStartTimes)
getActiveOperations(targetHostnames, startTimes) ==
    [t \in {targetHostnames[i] : i \in 1..Len(targetHostnames)} |->
        [k \in Kinds |-> OpsOf(t, k, startTimes)]]

RECURSIVE MaxTimeRemaining(_)
\* ops.length > 0 ? Math.max(...ops.map(o => o.timeRemaining)) : 0
MaxTimeRemaining(ops) ==
    IF ops = <<>> THEN 0
    ELSE IF Len(ops) = 1 THEN ops[1].timeRemaining
    ELSE Max(ops[1].timeRemaining, MaxTimeRemaining(Tail(ops)))

\* lines 64-79: the published figures of one kind
Operations(ops) ==
    [count |-> Len(ops), threads |-> SumThreads(ops),
     maxTimeRemaining |-> MaxTimeRemaining(ops)]

\* lines 52-82: the published entry of one target
StatusTarget(hostname, active) ==
    LET ops == IF hostname \in DOMAIN active THEN active[hostname]
               ELSE [k \in Kinds |-> <<>>]
    IN  [hostname |-> hostname,
         prepped |-> isPrepped(hostname),
         activelyWorked |->
             Len(ops.hack) + Len(ops.grow) + Len(ops.weaken) > 0,
         money |-> moneyAvail[hostname],
         operations |-> [k \in Kinds |-> Operations(ops[k])]]

\* the values ns returns for the hosts at this moment
LiveNs ==
    [h \in Hosts |-> [hasRoot |-> hasRoot[h], maxRam |-> ServerMaxRam(h),
                      usedRam |-> usedRam[h]]]

\* lines 49-84: the status object
Status(script, servers, tracked, active) ==
    [timestamp |-> now,
     ramPool |-> buildRamPoolOf(script, servers, LiveNs),
     targets |-> [i \in 1..Min(TargetCount, Len(tracked)) |->
                    StatusTarget(tracked[i], active)],
     opsScheduled |-> Len(tracked)]

(***************************************************************************)
(* scheduler.js and status-reporter.js side by side: two scripts of one    *)
(* game, each running from one await to the next without interruption.    *)
(* The reporter reads the state the scheduler published on port 4; worker  *)
(* processes end and time passes while both scripts sleep.                 *)
(***************************************************************************)
MaxStatusCycles == 2
MaxNow == 3
MaxExits == 1

\* the scheduler is at an await: the sleeps of lines 244, 261, 276, 315, 320
Suspended == pc = "sleep"

\* status-reporter.js lines 22-29: no scheduler state yet, sleep and retry
ReporterNoData ==
    /\ Suspended
    /\ statusPc = "sleep"
    /\ statusIteration < MaxStatusCycles
    /\ HasNoData(port4)
    /\ statusIteration' = statusIteration + 1
    /\ UNCHANGED <<port2, statusPc, activeOps, sharedState>>
    /\ UNCHANGED analyzerVars
    /\ UNCHANGED systemVars
    /\ UNCHANGED <<hasRoot, usedRam, secLevel, moneyAvail, hackingLevel, procs,
                   nextPid, now, port1, port4, pc, cycle, ramPool, targets,
                   tgtIdx, pending, call, operationStartTimes, calls, requests>>

\* faulty variant of ReporterNoTargets: the status channel is cleared
ReporterNoTargets_ClearsStatus ==
    /\ Suspended
    /\ statusPc = "sleep"
    /\ statusIteration < MaxStatusCycles
    /\ ~HasNoData(port4)
    /\ Peek(port4).targets = <<>>
    /\ statusIteration' = statusIteration + 1
    /\ port2' = ClearPort(port2)
    /\ UNCHANGED <<statusPc, activeOps, sharedState>>
    /\ UNCHANGED analyzerVars
    /\ UNCHANGED systemVars
    /\ UNCHANGED <<hasRoot, usedRam, secLevel, moneyAvail, hackingLevel, procs,
                   nextPid, now, port1, port4, pc, cycle, ramPool, targets,
                   tgtIdx, pending, call, operationStartTimes, calls, requests>>

\* status-reporter.js lines 31-39: the state holds no targets, sleep and retry
ReporterNoTargets ==
    /\ Suspended
    /\ statusPc = "sleep"
    /\ statusIteration < MaxStatusCycles
    /\ ~HasNoData(port4)
    /\ Peek(port4).targets = <<>>
    /\ statusIteration' = statusIteration + 1
    /\ UNCHANGED <<port2, statusPc, activeOps, sharedState>>
    /\ UNCHANGED analyzerVars
    /\ UNCHANGED systemVars
    /\ UNCHANGED <<hasRoot, usedRam, secLevel, moneyAvail, hackingLevel, procs,
                   nextPid, now, port1, port4, pc, cycle, ramPool, targets,
                   tgtIdx, pending, call, operationStartTimes, calls, requests>>

\* status-reporter.js lines 41-89: the running operations are queried, the
\* status is published (clearPort, writePort), the loop sleeps
ReporterCycle ==
    /\ Suspended
    /\ statusPc = "sleep"
    /\ statusIteration < MaxStatusCycles
    /\ ~HasNoData(port4)
    /\ Peek(port4).targets # <<>>
    /\ LET state == Peek(port4)
           active == getActiveOperations(state.targets,
                                         state.operationStartTimes)
       IN  /\ activeOps' = active
           /\ port2' = WritePort(ClearPort(port2),
                                 Status("status-reporter", state.servers,
                                        state.targets, active))
    /\ statusIteration' = statusIteration + 1
    /\ UNCHANGED <<statusPc, sharedState>>
    /\ UNCHANGED analyzerVars
    /\ UNCHANGED systemVars
    /\ UNCHANGED <<hasRoot, usedRam, secLevel, moneyAvail, hackingLevel, procs,
                   nextPid, now, port1, port4, pc, cycle, ramPool, targets,
                   tgtIdx, pending, call, operationStartTimes, calls, requests>>

\* the game ends a worker process (its script returns) and frees its RAM
WorkerExit ==
    /\ Suspended
    /\ statusPc = "sleep"
    /\ (nextPid - 1) - Cardinality(DOMAIN procs) < MaxExits
    /\ \E pid \in DOMAIN procs :
         /\ procs' = [p \in DOMAIN procs \ {pid} |-> procs[p]]
         /\ usedRam' = [usedRam EXCEPT ![procs[pid].host] =
                            @ - procs[pid].threads * WORKER_RAM]
    /\ UNCHANGED analyzerVars
    /\ UNCHANGED systemVars
    /\ UNCHANGED reporterVars
    /\ UNCHANGED <<hasRoot, secLevel, moneyAvail, hackingLevel,
                   nextPid, now, port1, port4, pc, cycle, ramPool, targets,
                   tgtIdx, pending, call, operationStartTimes, calls, requests>>

\* time passes while the scripts sleep
Tick ==
    /\ Suspended
    /\ statusPc = "sleep"
    /\ now < MaxNow
    /\ now' = now + 1
    /\ UNCHANGED analyzerVars
    /\ UNCHANGED systemVars
    /\ UNCHANGED reporterVars
    /\ UNCHANGED <<hasRoot, usedRam, secLevel, moneyAvail, hackingLevel, procs,
                   nextPid, port1, port4, pc, cycle, ramPool, targets,
                   tgtIdx, pending, call, operationStartTimes, calls, requests>>

\* the process with pid 1 was started on worker-0 by somebody else before
\* the scheduler: <<filename, args[0]>>, or none if it has ended already
ForeignScripts ==
    {<<"none", "none">>, <<"hack", "n1">>, <<"hack", "n2">>,
     <<"monitor", "n1">>}
\* <<security gap of n1, hacking level>>
SplitWorlds == {<<0, 10>>, <<200, 10>>, <<0, 50>>, <<0, 1>>}
\* other scripts hold all of 'home' but the reservation
SplitHomeUsed == 48

InitSplit ==
    /\ hasRoot = [h \in Hosts |-> h # "n2"]
    /\ \E f \in ForeignScripts :
         IF f[1] = "none"
         THEN /\ procs = EmptyMap
              /\ nextPid = 2
              /\ usedRam = [h \in Hosts |->
                              IF h = "home" THEN SplitHomeUsed ELSE 0]
         ELSE /\ procs = (1 :> [host |-> "worker-0", type |-> f[1],
                                target |-> f[2], threads |-> 1])
              /\ nextPid = 2
              /\ usedRam = [h \in Hosts |->
                              CASE h = "home" -> SplitHomeUsed
                                [] h = "worker-0" -> WORKER_RAM
                                [] OTHER -> 0]
    /\ \E w \in SplitWorlds :
         /\ secLevel = [t \in TargetHosts |->
                          ServerMinSecurity(t) + (IF t = "n1" THEN w[1] ELSE 0)]
         /\ hackingLevel = w[2]
    /\ moneyAvail = [t \in TargetHosts |-> ServerMaxMoney(t)]
    /\ now = 0
    /\ port1 = <<>>
    /\ port4 = <<>>
    /\ pc = "sleep"
    /\ cycle = 0
    /\ ramPool = <<>>
    /\ targets = <<>>
    /\ tgtIdx = 1
    /\ pending = <<>>
    /\ call = NoCall
    /\ operationStartTimes = EmptyMap
    /\ calls = <<>>
    /\ requests = <<>>
    /\ nsValues = NoValues
    /\ analysis = NoAnalysis
    /\ ReporterIdle
    /\ SystemIdle

NextSplit ==
    \/ ManagerPublish
    \/ CycleNoData
    \/ CycleNoRam
    \/ CycleNoTargets
    \/ CycleBegin
    \/ RoutePrep
    \/ RouteBatch
    \/ TargetDone
    \/ StartOperation
    \/ LoopSkip
    \/ ExecOk
    \/ OperationReturn
    \/ Publish
    \/ ReporterNoData
    \/ ReporterNoTargets
    \/ ReporterCycle
    \/ WorkerExit
    \/ Tick

SpecSplit == InitSplit /\ [][NextSplit]_vars

(***************************************************************************)
(* Exceptions in the main loops of scheduler.js and status-reporter.js.    *)
(* The body of each while (true) is one try block; ns.exec is called       *)
(* inside scheduleOperation's own try (ExecThrow), every other call of the *)
(* body (JSON.parse, the ns queries of buildRamPool and of the analyzer,   *)
(* clearPort, writePort) throws into the catch of the loop.                *)
(***************************************************************************)
\* scheduler.js lines 235-316: a statement of the try block throws, at the
\* start of a cycle (lines 247-296) or between two operations of it
CycleThrow ==
    /\ statusPc = "sleep"
    /\ \/ /\ pc = "sleep"
          /\ ~HasNoData(port1)
          /\ cycle + 1 < MaxCycles
          /\ cycle' = cycle + 1
       \/ /\ pc \in {"target", "calls"}
          /\ cycle < MaxCycles
          /\ cycle' = cycle
    /\ pc' = "caught"
    /\ UNCHANGED analyzerVars
    /\ UNCHANGED systemVars
    /\ UNCHANGED reporterVars
    /\ UNCHANGED <<hasRoot, usedRam, secLevel, moneyAvail, hackingLevel, procs,
                   nextPid, now, port1, port4, ramPool, targets, tgtIdx,
                   pending, call, operationStartTimes, calls, requests>>

\* faulty variant of CycleCaught: the handler leaves the loop
CycleCaught_LeavesLoop ==
    /\ pc = "caught"
    /\ pc' = "ended"
    /\ UNCHANGED analyzerVars
    /\ UNCHANGED systemVars
    /\ UNCHANGED reporterVars
    /\ UNCHANGED <<hasRoot, usedRam, secLevel, moneyAvail, hackingLevel, procs,
                   nextPid, now, port1, port4, cycle, ramPool, targets, tgtIdx,
                   pending, call, operationStartTimes, calls, requests>>

\* scheduler.js lines 317-321: the catch prints and sleeps; while (true)
\* goes on with the next cycle
CycleCaught ==
    /\ pc = "caught"
    /\ pc' = "sleep"
    /\ now' = now + 1
    /\ UNCHANGED analyzerVars
    /\ UNCHANGED systemVars
    /\ UNCHANGED reporterVars
    /\ UNCHANGED <<hasRoot, usedRam, secLevel, moneyAvail, hackingLevel, procs,
                   nextPid, port1, port4, cycle, ramPool, targets, tgtIdx,
                   pending, call, operationStartTimes, calls, requests>>

\* status-reporter.js lines 31-85: a statement of the try block throws
\* before clearPort, either before getActiveOperations has returned (lines
\* 31-46) or while the status object is built from its result (lines 49-84)
ReporterThrow ==
    /\ Suspended
    /\ statusPc = "sleep"
    /\ statusIteration + 1 < MaxStatusCycles
    /\ ~HasNoData(port4)
    /\ \/ UNCHANGED activeOps
       \/ /\ Peek(port4).targets # <<>>
          /\ activeOps' = getActiveOperations(Peek(port4).targets,
                                              Peek(port4).operationStartTimes)
    /\ statusIteration' = statusIteration + 1
    /\ statusPc' = "caught"
    /\ UNCHANGED <<port2, sharedState>>
    /\ UNCHANGED analyzerVars
    /\ UNCHANGED systemVars
    /\ UNCHANGED <<hasRoot, usedRam, secLevel, moneyAvail, hackingLevel, procs,
                   nextPid, now, port1, port4, pc, cycle, ramPool, targets,
                   tgtIdx, pending, call, operationStartTimes, calls, requests>>

\* status-reporter.js lines 91-95: the catch prints and sleeps
ReporterCaught ==
    /\ statusPc = "caught"
    /\ statusPc' = "sleep"
    /\ UNCHANGED <<port2, statusIteration, activeOps, sharedState>>
    /\ UNCHANGED analyzerVars
    /\ UNCHANGED systemVars
    /\ UNCHANGED <<hasRoot, usedRam, secLevel, moneyAvail, hackingLevel, procs,
                   nextPid, now, port1, port4, pc, cycle, ramPool, targets,
                   tgtIdx, pending, call, operationStartTimes, calls, requests>>

\* the steps of scheduler.js
SchedulerRuns ==
    \/ CycleNoData
    \/ CycleNoRam
    \/ CycleNoTargets
    \/ CycleBegin
    \/ RoutePrep
    \/ RouteBatch
    \/ TargetDone
    \/ StartOperation
    \/ LoopSkip
    \/ ExecOk
    \/ OperationReturn
    \/ Publish
    \/ CycleThrow
    \/ CycleCaught

\* the steps of status-reporter.js that end in a sleep without a status
ReporterWaits ==
    \/ ReporterNoData
    \/ ReporterNoTargets
    \/ ReporterCaught

\* ReporterCycle can be taken: its step adds one to statusIteration, so
\* this is ENABLED <<ReporterCycle>>_vars
ReporterCycleReady ==
    /\ Suspended
    /\ statusPc = "sleep"
    /\ statusIteration < MaxStatusCycles
    /\ ~HasNoData(port4)
    /\ Peek(port4).targets # <<>>

\* WF_vars(ReporterCycle), written with ReporterCycleReady for its ENABLED
ReporterCycleFair ==
    <>[]~ReporterCycleReady \/ []<><<ReporterCycle>>_vars

NextFaults ==
    \/ ManagerPublish
    \/ CycleNoData
    \/ CycleNoRam
    \/ CycleNoTargets
    \/ CycleBegin
    \/ RoutePrep
    \/ RouteBatch
    \/ TargetDone
    \/ StartOperation
    \/ LoopSkip
    \/ ExecOk
    \/ OperationReturn
    \/ Publish
    \/ CycleThrow
    \/ CycleCaught
    \/ ReporterNoData
    \/ ReporterNoTargets
    \/ ReporterCycle
    \/ ReporterThrow
    \/ ReporterCaught

\* ns.sleep ends after its interval and the script is run again: a loop that
\* can take a step takes one
SpecFaults ==
    /\ InitSplit
    /\ [][NextFaults]_vars
    /\ WF_vars(SchedulerRuns)
    /\ WF_vars(ReporterWaits)
    /\ ReporterCycleFair

(***************************************************************************)
(* The two-loop scheduler (unnamed/part_001): schedulingLoop and           *)
(* statusReportingLoop run in one script and share sharedState; each runs  *)
(* from one await to the next while the other waits.  The variable         *)
(* operationStartTimes is sharedState.operationStartTimes here: no cycle   *)
(* resets it, the status loop prunes it.                                   *)
(***************************************************************************)
\* faulty variant of StatusSuspended: the status loop also waits between
\* enumerating the processes and pruning the map
StatusSuspended_Enumerated == statusPc \in {"sleep", "enumerated"}

\* the status loop is at an await: the sleeps of lines 139, 146, 199, 204
\* (ns.writePort of line 196 returns at once, no other task runs before 199)
StatusSuspended == statusPc = "sleep"

\* lines 57-62: no server list yet, sleep and retry
LoopCycleNoData ==
    /\ pc = "sleep"
    /\ StatusSuspended
    /\ cycle < MaxCycles
    /\ HasNoData(port1)
    /\ cycle' = cycle + 1
    /\ now' = now + 1
    /\ call' = NoCall
    /\ calls' = <<>>
    /\ requests' = <<>>
    /\ UNCHANGED analyzerVars
    /\ UNCHANGED systemVars
    /\ UNCHANGED reporterVars
    /\ UNCHANGED <<hasRoot, usedRam, secLevel, moneyAvail, hackingLevel, procs,
                   nextPid, port1, port4, pc, ramPool, targets, tgtIdx,
                   pending, operationStartTimes>>

\* lines 64-77: the list is shared, the pool is empty, sleep
LoopCycleNoRam ==
    /\ pc = "sleep"
    /\ StatusSuspended
    /\ cycle < MaxCycles
    /\ ~HasNoData(port1)
    /\ buildRamPool(Peek(port1).servers) = <<>>
    /\ sharedState' = [sharedState EXCEPT !.servers = Peek(port1).servers]
    /\ ramPool' = <<>>
    /\ cycle' = cycle + 1
    /\ now' = now + 1
    /\ call' = NoCall
    /\ calls' = <<>>
    /\ requests' = <<>>
    /\ UNCHANGED analyzerVars
    /\ UNCHANGED systemVars
    /\ UNCHANGED <<port2, statusPc, statusIteration, activeOps>>
    /\ UNCHANGED <<hasRoot, usedRam, secLevel, moneyAvail, hackingLevel, procs,
                   nextPid, port1, port4, pc, targets, tgtIdx, pending,
                   operationStartTimes>>

\* lines 64-86: the list is shared, no valid target, sleep
LoopCycleNoTargets ==
    /\ pc = "sleep"
    /\ StatusSuspended
    /\ cycle < MaxCycles
    /\ ~HasNoData(port1)
    /\ buildRamPool(Peek(port1).servers) # <<>>
    /\ getBestTargets(TargetCount) = <<>>
    /\ sharedState' = [sharedState EXCEPT !.servers = Peek(port1).servers]
    /\ ramPool' = buildRamPool(Peek(port1).servers)
    /\ targets' = <<>>
    /\ cycle' = cycle + 1
    /\ now' = now + 1
    /\ call' = NoCall
    /\ calls' = <<>>
    /\ requests' = <<>>
    /\ UNCHANGED analyzerVars
    /\ UNCHANGED systemVars
    /\ UNCHANGED <<port2, statusPc, statusIteration, activeOps>>
    /\ UNCHANGED <<hasRoot, usedRam, secLevel, moneyAvail, hackingLevel, procs,
                   nextPid, port1, port4, pc, tgtIdx, pending,
                   operationStartTimes>>

\* lines 64-97: list and targets are shared, enter the loop over the targets
LoopCycleBegin ==
    /\ pc = "sleep"
    /\ StatusSuspended
    /\ cycle < MaxCycles
    /\ ~HasNoData(port1)
    /\ buildRamPool(Peek(port1).servers) # <<>>
    /\ getBestTargets(TargetCount) # <<>>
    /\ sharedState' = [servers |-> Peek(port1).servers,
                       targets |-> getBestTargets(TargetCount)]
    /\ ramPool' = buildRamPool(Peek(port1).servers)
    /\ targets' = getBestTargets(TargetCount)
    /\ tgtIdx' = 1
    /\ pending' = <<>>
    /\ pc' = "target"
    /\ cycle' = cycle + 1
    /\ call' = NoCall
    /\ calls' = <<>>
    /\ requests' = <<>>
    /\ UNCHANGED analyzerVars
    /\ UNCHANGED systemVars
    /\ UNCHANGED <<port2, statusPc, statusIteration, activeOps>>
    /\ UNCHANGED <<hasRoot, usedRam, secLevel, moneyAvail, hackingLevel, procs,
                   nextPid, now, port1, port4, operationStartTimes>>

\* lines 109-112: the loop over the targets is over, sleep
LoopCycleEnd ==
    /\ pc = "target"
    /\ tgtIdx > Len(targets)
    /\ pc' = "sleep"
    /\ now' = now + 1
    /\ UNCHANGED analyzerVars
    /\ UNCHANGED systemVars
    /\ UNCHANGED reporterVars
    /\ UNCHANGED <<hasRoot, usedRam, secLevel, moneyAvail, hackingLevel, procs,
                   nextPid, port1, port4, cycle, ramPool, targets, tgtIdx,
                   pending, call, operationStartTimes, calls, requests>>

\* lines 137-148: no targets or no servers shared yet, sleep
StatusSkip ==
    /\ Suspended
    /\ cycle > 0    \* lines 26-28: schedulingLoop reaches its first sleep first
    /\ statusPc = "sleep"
    /\ statusIteration < MaxStatusCycles
    /\ (sharedState.targets = <<>> \/ sharedState.servers = <<>>)
    /\ statusIteration' = statusIteration + 1
    /\ UNCHANGED <<port2, statusPc, activeOps, sharedState>>
    /\ UNCHANGED analyzerVars
    /\ UNCHANGED systemVars
    /\ UNCHANGED <<hasRoot, usedRam, secLevel, moneyAvail, hackingLevel, procs,
                   nextPid, now, port1, port4, pc, cycle, ramPool, targets,
                   tgtIdx, pending, call, operationStartTimes, calls, requests>>

\* lines 150-155 and 388-441: the running operations are enumerated
StatusEnumerate ==
    /\ Suspended
    /\ statusPc = "sleep"
    /\ statusIteration < MaxStatusCycles
    /\ sharedState.targets # <<>>
    /\ sharedState.servers # <<>>
    /\ activeOps' = getActiveOperations(sharedState.targets,
                                        operationStartTimes)
    /\ statusPc' = "enumerated"
    /\ statusIteration' = statusIteration + 1
    /\ UNCHANGED <<port2, sharedState>>
    /\ UNCHANGED analyzerVars
    /\ UNCHANGED systemVars
    /\ UNCHANGED <<hasRoot, usedRam, secLevel, moneyAvail, hackingLevel, procs,
                   nextPid, now, port1, port4, pc, cycle, ramPool, targets,
                   tgtIdx, pending, call, operationStartTimes, calls, requests>>

\* faulty variant of Prune: an entry goes only once its duration has elapsed
Prune_AfterDuration(startTimes) ==
    LET kept == {pid \in DOMAIN startTimes :
                    \/ pid \in DOMAIN procs
                    \/ now - startTimes[pid].startTime
                          < Duration(startTimes[pid].type,
                                     startTimes[pid].target)}
    IN  [pid \in kept |-> startTimes[pid]]

\* lines 443-456: the entries of the pids that are not running are deleted
Prune(startTimes) ==
    LET runningScripts == RunningScripts(getAllServers)
        allRunningPids == {runningScripts[i].pid : i \in 1..Len(runningScripts)}
    IN  [pid \in DOMAIN startTimes \cap allRunningPids |-> startTimes[pid]]

\* lines 443-456 and 157-199: the tracked map is pruned, the status is
\* published (clearPort, writePort), the loop sleeps
StatusPrune ==
    /\ statusPc = "enumerated"
    /\ operationStartTimes' = Prune(operationStartTimes)
    /\ port2' = WritePort(ClearPort(port2),
                          Status("scheduler", sharedState.servers,
                                 sharedState.targets, activeOps))
    /\ statusPc' = "sleep"
    /\ UNCHANGED <<statusIteration, activeOps, sharedState>>
    /\ UNCHANGED analyzerVars
    /\ UNCHANGED systemVars
    /\ UNCHANGED <<hasRoot, usedRam, secLevel, moneyAvail, hackingLevel, procs,
                   nextPid, now, port1, port4, pc, cycle, ramPool, targets,
                   tgtIdx, pending, call, calls, requests>>

\* <<security gap of n1, hacking level>>
LoopWorlds == {<<0, 10>>, <<200, 10>>, <<0, 50>>, <<0, 1>>}

InitLoops ==
    /\ hasRoot = [h \in Hosts |-> h # "n2"]
    /\ procs = EmptyMap
    /\ nextPid = 1
    /\ usedRam = [h \in Hosts |-> IF h = "home" THEN SplitHomeUsed ELSE 0]
    /\ \E w \in LoopWorlds :
         /\ secLevel = [t \in TargetHosts |->
                          ServerMinSecurity(t) + (IF t = "n1" THEN w[1] ELSE 0)]
         /\ hackingLevel = w[2]
    /\ moneyAvail = [t \in TargetHosts |-> ServerMaxMoney(t)]
    /\ now = 0
    /\ port1 = <<>>
    /\ port4 = <<>>
    /\ pc = "sleep"
    /\ cycle = 0
    /\ ramPool = <<>>
    /\ targets = <<>>
    /\ tgtIdx = 1
    /\ pending = <<>>
    /\ call = NoCall
    /\ operationStartTimes = EmptyMap
    /\ calls = <<>>
    /\ requests = <<>>
    /\ nsValues = NoValues
    /\ analysis = NoAnalysis
    /\ ReporterIdle
    /\ SystemIdle

NextLoops ==
    \/ ManagerPublish
    \/ LoopCycleNoData
    \/ LoopCycleNoRam
    \/ LoopCycleNoTargets
    \/ LoopCycleBegin
    \/ RoutePrep
    \/ RouteBatch
    \/ TargetDone
    \/ StartOperation
    \/ LoopSkip
    \/ ExecOk
    \/ OperationReturn
    \/ LoopCycleEnd
    \/ StatusSkip
    \/ StatusEnumerate
    \/ StatusPrune
    \/ WorkerExit
    \/ Tick

SpecLoops == InitLoops /\ [][NextLoops]_vars

(***************************************************************************)
(* Properties of the allocator.                                            *)
(***************************************************************************)
\* a scheduleOperation call has returned and no later call has started
Returned == call.active /\ call.done

\* units placed by the call, and the free capacity it took from the pool
Placed == call.threads - call.threadsRemaining
FreeDecrease == SumFree(call.pool0) - SumFree(ramPool)

\* C1 as stated: whenever every dispatch succeeds and U * c <= C (C the total
\* free capacity of the pool), the call places all U units and the total
\* free capacity decreases by exactly U * c.
C1_FullPlacementByTotal ==
    (Returned /\ call.failures = 0
        /\ call.threads * WORKER_RAM <= SumFree(call.pool0))
    => (call.threadsRemaining = 0
        /\ FreeDecrease = call.threads * WORKER_RAM)

\* C1 amended: whenever every dispatch succeeds and U is at most the number
\* of whole units the nodes can hold (the sum over the nodes of
\* floor(free / c)), the call places all U units and the total free capacity
\* decreases by exactly U * c.
C1_FullPlacement ==
    (Returned /\ call.failures = 0 /\ call.threads <= SumSlots(call.pool0))
    => (call.threadsRemaining = 0
        /\ FreeDecrease = call.threads * WORKER_RAM)

\* a request spread over two nodes was placed in full with no failure
C1_Witness ==
    /\ Returned
    /\ call.failures = 0
    /\ call.threads <= SumSlots(call.pool0)
    /\ Len(call.deployments) >= 2
    /\ call.threadsRemaining = 0

\* C2 as stated: whenever every dispatch succeeds and U * c > C, the call
\* places exactly floor(C / c) units.
C2_ExhaustionByTotal ==
    (Returned /\ call.failures = 0
        /\ call.threads * WORKER_RAM > SumFree(call.pool0))
    => Placed = FloorDiv(SumFree(call.pool0), WORKER_RAM)

\* C2 amended: whenever every dispatch succeeds and U * c > C, the call
\* places exactly the sum over the nodes of floor(free / c) units, which is
\* at most floor(C / c), and stops with no node able to hold another unit.
C2_Exhaustion ==
    (Returned /\ call.failures = 0
        /\ call.threads * WORKER_RAM > SumFree(call.pool0))
    => (/\ Placed = SumSlots(call.pool0)
        /\ Placed <= FloorDiv(SumFree(call.pool0), WORKER_RAM)
        /\ call.threadsRemaining > 0
        /\ SumSlots(ramPool) = 0)

\* a request larger than the pool was cut short after placing some units
C2_Witness ==
    /\ Returned
    /\ call.failures = 0
    /\ call.threads * WORKER_RAM > SumFree(call.pool0)
    /\ Len(call.deployments) >= 2
    /\ call.threadsRemaining > 0

\* C3: within a cycle every pool entry has freeRam >= 0 and
\* freeRam = maxRam - usedRam, where the usedRam of the entry is the used
\* RAM of the node, plus the reservation for 'home'.
C3_PoolEntryInvariant ==
    pc # "sleep" =>
      \A i \in 1..Len(ramPool) :
        LET e == ramPool[i]
        IN  /\ e.freeRam >= 0
            /\ e.freeRam = e.maxRam - e.usedRam
            /\ e.maxRam = ServerMaxRam(e.hostname)
            /\ e.usedRam = usedRam[e.hostname]
                           + (IF e.hostname = "home" THEN reservedRam ELSE 0)

\* the pool holds 'home' after a mix of failed and successful dispatches,
\* one of them on 'home'
C3_Witness ==
    /\ pc = "calls"
    /\ \E i \in 1..Len(ramPool) :
         ramPool[i].hostname = "home" /\ ramPool[i].usedRam > reservedRam
    /\ \E i, j \in 1..Len(requests) :
         requests[i].result = "ok" /\ requests[j].result # "ok"

\* a step that issues a request which fails (pid 0 or an exception)
FailedDispatchStep ==
    /\ Len(requests') = Len(requests) + 1
    /\ requests'[Len(requests')].result # "ok"

\* C4: a failed dispatch records no deployment and no tracked entry, starts
\* no process, leaves the pool and the remaining unit count unchanged, and
\* the loop of the same call goes on at the next node; no node is asked
\* again in a call after it failed.
C4_DispatchFailureHandling ==
    /\ [][FailedDispatchStep =>
            /\ call'.deployments = call.deployments
            /\ operationStartTimes' = operationStartTimes
            /\ procs' = procs
            /\ ramPool' = ramPool
            /\ call'.threadsRemaining = call.threadsRemaining
            /\ call'.idx = call.idx + 1
            /\ pc' = "loop"
            /\ ~call'.done]_vars
    /\ [](\A i, j \in 1..Len(requests) :
            (i < j /\ requests[i].call = requests[j].call
                   /\ requests[i].result # "ok")
            => requests[i].host # requests[j].host)

\* a dispatch failed and the same call then placed threads on the next node
C4_Witness ==
    \E i \in 1..Len(requests) - 1 :
      /\ requests[i].result # "ok"
      /\ requests[i + 1].call = requests[i].call
      /\ requests[i + 1].result = "ok"
      /\ requests[i + 1].host # requests[i].host
      /\ requests[i + 1].remaining = requests[i].remaining

\* the successful requests of the running call, in the order issued
OkRequests ==
    SelectSeq(requests, LAMBDA r : r.call = Len(calls) /\ r.result = "ok")

\* C5: at every point of a scheduleOperation call the deployments are
\* exactly its successful dispatches, their thread counts sum to
\* requested - remaining, which never exceeds the requested units and equals
\* the decrease of pool free capacity divided by the unit cost; the call
\* returns them also when the placement is partial.
C5_Conservation ==
    call.active =>
      /\ Len(call.deployments) = Len(OkRequests)
      /\ \A k \in 1..Len(call.deployments) :
           /\ call.deployments[k].host = OkRequests[k].host
           /\ call.deployments[k].threads = OkRequests[k].threads
           /\ call.deployments[k].pid \in DOMAIN procs
           /\ procs[call.deployments[k].pid].threads = OkRequests[k].threads
      /\ SumThreads(call.deployments) = call.threads - call.threadsRemaining
      /\ SumThreads(call.deployments) <= call.threads
      /\ call.threadsRemaining >= 0
      /\ SumThreads(call.deployments) * WORKER_RAM = FreeDecrease

\* a call returned a partial placement: some units placed, some left
C5_Witness ==
    /\ Returned
    /\ call.threadsRemaining > 0
    /\ Len(call.deployments) >= 1
    /\ call.failures > 0

\* C6: a dispatch request is issued only while the remaining unit count is
\* positive; a call that returns with nothing remaining while the node it
\* stopped at still has room has issued no request for that node, and a
\* request for 0 units issues no request and leaves the pool as it was.
C6_EarlyStop ==
    /\ [][Len(requests') > Len(requests) => call.threadsRemaining > 0]_vars
    /\ [](\A i \in 1..Len(requests) :
            requests[i].remaining > 0 /\ requests[i].threads > 0)
    /\ []((Returned /\ call.threads = 0)
            => (requests = <<>> /\ ramPool = call.pool0 /\ procs = EmptyMap))
    /\ []((Returned /\ call.threadsRemaining = 0)
            => \A i \in 1..Len(ramPool) :
                 i >= call.idx => ramPool[i] = call.pool0[i])

\* the loop stopped with nothing remaining although the next node had room
C6_Witness ==
    /\ Returned
    /\ call.threads > 0
    /\ call.threadsRemaining = 0
    /\ call.idx <= Len(ramPool)
    /\ FloorDiv(ramPool[call.idx].freeRam, WORKER_RAM) > 0

\* a request for 0 units returned on a pool with room
C6_ZeroUnitsReached ==
    Returned /\ call.threads = 0 /\ SumSlots(ramPool) > 0

(***************************************************************************)
(* Properties of a scheduling cycle.  The target values the cycle reads do *)
(* not change while the cycle runs, so they are read from the state.       *)
(***************************************************************************)
CallsFor(t) == SelectSeq(calls, LAMBDA c : c.target = t)
RequestsFor(t) == SelectSeq(requests, LAMBDA r : r.target = t)
OkRequestsOfCall(k) ==
    SelectSeq(requests, LAMBDA r : r.call = k /\ r.result = "ok")

\* the position of a target in the ranked list of the cycle
Rank(t) == CHOOSE i \in 1..Len(targets) : targets[i] = t

\* C7: in a cycle, for a target that is not prepped, at most one operation
\* kind is dispatched (one scheduleOperation call, never hack); grow is
\* dispatched only when the weaken threads computed in this cycle are 0, and
\* while they are positive every request for the target is a weaken request.
C7_StabilizePriority ==
    pc # "sleep" =>
      \A t \in TargetHosts :
        ~isPrepped(t) =>
          LET tr == RequestsFor(t)
              needs == getPrepNeeds(t)
          IN  /\ Len(CallsFor(t)) <= 1
              /\ \A i, j \in 1..Len(tr) : tr[i].opType = tr[j].opType
              /\ \A i \in 1..Len(tr) :
                   /\ tr[i].opType # "hack"
                   /\ tr[i].opType = "grow" => needs.weakenThreads = 0
                   /\ needs.weakenThreads > 0 => tr[i].opType = "weaken"

\* one target needing weaken and grow got a weaken dispatch, another target
\* needing only grow got a grow dispatch
C7_Witness ==
    /\ pc # "sleep"
    /\ \E i, j \in 1..Len(requests) :
         /\ ~isPrepped(requests[i].target)
         /\ getPrepNeeds(requests[i].target).weakenThreads > 0
         /\ getPrepNeeds(requests[i].target).growThreads > 0
         /\ requests[i].opType = "weaken"
         /\ requests[i].result = "ok"
         /\ ~isPrepped(requests[j].target)
         /\ requests[j].opType = "grow"
         /\ requests[j].result = "ok"

\* C8: for a prepped target the cycle calls scheduleOperation for hack, then
\* grow, then weaken, with the thread counts of calculateBatchSize; once the
\* target is processed all three calls were made, whatever the earlier calls
\* of the batch placed.
C8_HarvestBatchOrder ==
    pc # "sleep" =>
      \A i \in 1..Len(targets) :
        isPrepped(targets[i]) =>
          LET tc == CallsFor(targets[i])
              order == <<"hack", "grow", "weaken">>
              batch == calculateBatchSize(targets[i])
              count == <<batch.hackThreads, batch.growThreads,
                         batch.weakenThreads>>
          IN  /\ Len(tc) <= 3
              /\ \A k \in 1..Len(tc) :
                   tc[k].opType = order[k] /\ tc[k].threads = count[k]
              /\ (i < tgtIdx /\ pc = "target") => Len(tc) = 3

\* a batch whose hack call placed nothing after a failed dispatch and whose
\* grow and weaken calls were made all the same, the grow call placing threads
C8_Witness ==
    /\ pc = "target"
    /\ \E k \in 1..Len(calls) :
         /\ k + 2 <= Len(calls)
         /\ isPrepped(calls[k].target)
         /\ Rank(calls[k].target) < tgtIdx
         /\ calls[k].opType = "hack"
         /\ calls[k + 1].opType = "grow"
         /\ calls[k + 2].opType = "weaken"
         /\ OkRequestsOfCall(k) = <<>>
         /\ \E r \in 1..Len(requests) :
              requests[r].call = k /\ requests[r].result # "ok"
         /\ OkRequestsOfCall(k + 1) # <<>>

\* C9: the ranked list is ordered by score, highest first, and within a
\* cycle every scheduleOperation call and every dispatch request for a
\* higher-ranked target comes before any for a lower-ranked target.
C9_ScoreOrder ==
    pc # "sleep" =>
      /\ \A i, j \in 1..Len(targets) :
           i < j => /\ ~ScoreGreater(targets[j], targets[i])
                    /\ targets[i] # targets[j]
      /\ \A i, j \in 1..Len(requests) :
           i < j => Rank(requests[i].target) <= Rank(requests[j].target)
      /\ \A i, j \in 1..Len(calls) :
           i < j => Rank(calls[i].target) <= Rank(calls[j].target)

\* both targets got dispatches in one cycle, the one of higher score first
C9_Witness ==
    /\ pc # "sleep"
    /\ \E i, j \in 1..Len(requests) :
         /\ i < j
         /\ requests[i].result = "ok"
         /\ requests[j].result = "ok"
         /\ ScoreGreater(requests[i].target, requests[j].target)

(***************************************************************************)
(* Properties of the analyzer.                                             *)
(***************************************************************************)
\* C10: isPrepped returns true iff current security <= minimum + 0.1 and
\* current money >= 0.99 * maximum money, for the values the target has at
\* the time of the call; the call changes nothing but its result.
C10_IsPrepped ==
    /\ [](analysis.fn = "isPrepped" =>
            (analysis.value = TRUE
               <=> (/\ nsValues.currentSec - nsValues.minSec <= 100
                    /\ 100 * nsValues.currentMoney >= 99 * nsValues.maxMoney)))
    /\ [][analysis'.fn = "isPrepped" =>
            (nsValues' = nsValues /\ UNCHANGED schedulerVars)]_vars

\* isPrepped returned true for values that sit on both thresholds
C10_Witness ==
    /\ analysis.fn = "isPrepped"
    /\ analysis.value = TRUE
    /\ nsValues.currentSec = nsValues.minSec + 100
    /\ nsValues.maxMoney = 400
    /\ nsValues.currentMoney = 396

\* C11: getPrepNeeds returns weakenThreads = ceil(gap / 0.05) for the gap
\* between current and minimum security (the least whole number of weaken
\* threads whose effect covers the gap), and 0 when the gap is <= 0.
C11_StabilizeUnits ==
    analysis.fn = "getPrepNeeds" =>
      LET gap == nsValues.currentSec - nsValues.minSec
          w == analysis.value.weakenThreads
      IN  /\ gap <= 0 => w = 0
          /\ gap > 0 => /\ w * 50 >= gap
                        /\ (w - 1) * 50 < gap

\* getPrepNeeds returned 3 weaken threads for a gap of 0.101
C11_Witness ==
    /\ analysis.fn = "getPrepNeeds"
    /\ nsValues.currentSec - nsValues.minSec = 101
    /\ analysis.value.weakenThreads = 3

\* C12 as stated: getPrepNeeds returns growThreads = 0 when current money is
\* >= 99% of maximum money and growThreads > 0 otherwise, for every target
\* state (zero money and small maximum money included).
C12_RestoreUnits ==
    analysis.fn = "getPrepNeeds" =>
      LET g == analysis.value.growThreads
      IN  IF 100 * nsValues.currentMoney >= 99 * nsValues.maxMoney
          THEN g = 0
          ELSE g > 0

\* C13 as stated: for every batch, weakenThreads * 0.05 >= hackThreads * 0.002
\* + growThreads * 0.004, and weakenThreads is the smallest whole number with
\* that property (security in thousandths: 50, 2 and 4).
C13_StabilizeOffset ==
    analysis.fn = "calculateBatchSize" =>
      LET b == analysis.value
          increase == b.hackThreads * 2 + b.growThreads * 4
      IN  /\ b.weakenThreads * 50 >= increase
          /\ (b.weakenThreads - 1) * 50 < increase

\* C14: calculateBatchSize returns hackThreads >= 1 whatever the host's hack
\* analysis is (negative, 0, a fraction below 1), and so every batch asks for
\* at least one hack thread and at least one weaken thread.
C14_ExtractUnits ==
    analysis.fn = "calculateBatchSize" =>
      /\ analysis.value.hackThreads >= 1
      /\ analysis.value.weakenThreads >= 1
      /\ nsValues.hackAnalyze >= 10
           => /\ analysis.value.hackThreads * 10 <= nsValues.hackAnalyze
              /\ (analysis.value.hackThreads + 1) * 10 > nsValues.hackAnalyze

\* the host's hack analysis was 0.4 threads and the batch asks for 1
C14_Witness ==
    /\ analysis.fn = "calculateBatchSize"
    /\ nsValues.hackAnalyze = 4
    /\ analysis.value.hackThreads = 1
    /\ analysis.value.weakenThreads >= 1

(***************************************************************************)
(* Properties of the pool builder.                                         *)
(***************************************************************************)
\* the position of a host in a pool, 0 when it is not in it
PoolIndex(pool, h) ==
    IF \E i \in 1..Len(pool) : pool[i].hostname = h
    THEN CHOOSE i \in 1..Len(pool) : pool[i].hostname = h
    ELSE 0

\* C15: buildRamPool admits a host other than 'home' iff it is rooted and
\* total - used > 1.75 GB, with freeRam = total - used; a host without root
\* access is never in the pool, no host is in it twice, and the returned
\* pool is sorted by free RAM, largest first.
C15_PoolAdmission ==
    analysis.fn = "buildRamPool" =>
      LET pool == analysis.value
      IN  /\ \A h \in Hosts \ {"home"} :
               /\ PoolIndex(pool, h) # 0
                    <=> (/\ nsValues[h].hasRoot
                         /\ nsValues[h].maxRam - nsValues[h].usedRam > 7)
               /\ PoolIndex(pool, h) # 0 =>
                    /\ pool[PoolIndex(pool, h)].freeRam
                         = nsValues[h].maxRam - nsValues[h].usedRam
                    /\ pool[PoolIndex(pool, h)].usedRam = nsValues[h].usedRam
                    /\ pool[PoolIndex(pool, h)].maxRam = nsValues[h].maxRam
          /\ \A i \in 1..Len(pool) :
               /\ pool[i].hostname \in Hosts
               /\ nsValues[pool[i].hostname].hasRoot
          /\ \A i, j \in 1..Len(pool) :
               i < j => /\ pool[i].freeRam >= pool[j].freeRam
                        /\ pool[i].hostname # pool[j].hostname

\* a pool was built while one rooted host had exactly 1.75 GB free (left
\* out), one had 2 GB free (admitted) and one had no root access
C15_Witness ==
    /\ analysis.fn = "buildRamPool"
    /\ nsValues["worker-0"].usedRam = 24
    /\ PoolIndex(analysis.value, "worker-0") # 0
    /\ nsValues["n1"].hasRoot
    /\ nsValues["n1"].usedRam = 9
    /\ PoolIndex(analysis.value, "n1") = 0
    /\ ~nsValues["n2"].hasRoot
    /\ nsValues["n2"].maxRam = 32
    /\ PoolIndex(analysis.value, "n2") = 0

\* the reservation the claim names for each script: 20 GB, 30 GB for the
\* orchestrator
ClaimedReservation(script) == IF script = "orchestrator" THEN 120 ELSE 80

\* C16: 'home' is admitted iff max(0, total - used - R) > 1.75 GB, and is
\* then recorded with freeRam = total - used - R and usedRam = used + R, for
\* R = 20 GB in the scheduler and the status reporter and R = 30 GB in the
\* orchestrator; with total 64 GB and R = 20 GB, used 40 GB is admitted with
\* 4 GB free and used 50 GB is left out.
C16_HomeReservation ==
    analysis.fn = "buildRamPool" =>
      LET pool == analysis.value
          R == ClaimedReservation(analysis.script)
          total == nsValues["home"].maxRam
          used == nsValues["home"].usedRam
          k == PoolIndex(pool, "home")
          adjusted == IF total - used - R > 0 THEN total - used - R ELSE 0
      IN  /\ k # 0 <=> adjusted > 7
          /\ k # 0 => /\ pool[k].freeRam = total - used - R
                      /\ pool[k].usedRam = used + R
                      /\ pool[k].maxRam = total
          /\ (analysis.script # "orchestrator" /\ total = 256 /\ used = 160)
               => (k # 0 /\ pool[k].freeRam = 16)
          /\ (analysis.script # "orchestrator" /\ total = 256 /\ used = 200)
               => k = 0

\* the orchestrator admitted 'home' at 64 GB total and 32 GB used, with the
\* 2 GB that its reservation of 30 GB leaves
C16_Witness ==
    /\ analysis.fn = "buildRamPool"
    /\ analysis.script = "orchestrator"
    /\ nsValues["home"].maxRam = 256
    /\ nsValues["home"].usedRam = 128
    /\ PoolIndex(analysis.value, "home") # 0
    /\ analysis.value[PoolIndex(analysis.value, "home")].freeRam = 8
    /\ analysis.value[PoolIndex(analysis.value, "home")].usedRam = 248

\* a pool whose every entry has at least the free RAM of the entry after it
SortedByFree(pool) ==
    \A i \in 1..Len(pool) - 1 : pool[i].freeRam >= pool[i + 1].freeRam

\* the hosts of a pool, in the order of its entries
Hostnames(pool) == [i \in 1..Len(pool) |-> pool[i].hostname]

\* C17 as stated: at the start of every scheduleOperation call of a cycle the
\* pool is sorted by free RAM, largest first.
C17_SortedAtEveryCall == call.active => SortedByFree(call.pool0)

\* C17 amended: the pool is sorted by free RAM, largest first, when
\* buildRamPool returns it, so at the start of the first scheduleOperation
\* call of a cycle; during the cycle the entries keep the order of the build
\* and their free RAM only decreases (the pool is not sorted again).
C17_SortedAtBuild ==
    /\ [][ramPool' # ramPool /\ pc = "sleep" => SortedByFree(ramPool')]_vars
    /\ []((call.active /\ Len(calls) = 1) => SortedByFree(call.pool0))
    /\ [][pc # "sleep" =>
            /\ Hostnames(ramPool') = Hostnames(ramPool)
            /\ \A i \in 1..Len(ramPool) :
                 ramPool'[i].freeRam <= ramPool[i].freeRam]_vars

\* a later scheduleOperation call of a cycle started on a pool that the
\* earlier calls left unsorted
C17_Witness ==
    /\ call.active
    /\ Len(calls) >= 2
    /\ pc = "loop"
    /\ call.idx = 1
    /\ ~SortedByFree(call.pool0)
    /\ call.pool0 = ramPool

(***************************************************************************)
(* Properties of the target ranking.                                       *)
(***************************************************************************)
\* the hostnames of a sequence of hostnames
Members(seq) == {seq[i] : i \in 1..Len(seq)}

\* hostname passes the three filters of getBestTargets
PassesFilters(h) ==
    /\ h # "home"
    /\ h \notin PurchasedServers
    /\ RequiredHackingSkill(h) <= hackingLevel
    /\ ServerMaxMoney(h) # 0

\* C18: the result of getBestTargets(K) contains no 'home', no 'worker-'
\* host, no target whose required skill exceeds the player's level and no
\* target of maximum money 0; it has at most K entries; its scores are
\* non-increasing; every eligible target left out has a score no higher
\* than the lowest score returned.
C18_BestTargets ==
    analysis.fn = "getBestTargets" =>
        LET result == analysis.value
        IN  /\ \A i \in 1..Len(result) :
                 /\ result[i] # "home"
                 /\ result[i] \notin PurchasedServers
                 /\ RequiredHackingSkill(result[i]) <= hackingLevel
                 /\ ServerMaxMoney(result[i]) # 0
            /\ Len(result) <= analysis.count
            /\ \A i, j \in 1..Len(result) :
                 i < j => ~ScoreGreater(result[j], result[i])
            /\ \A h \in Hosts \ Members(result) :
                 PassesFilters(h) =>
                     /\ result # <<>>
                     /\ ~ScoreGreater(h, result[Len(result)])

\* a call with K = 1 while both targets are eligible: the better one is
\* returned, the other one and the host without money are left out
C18_Witness ==
    /\ analysis.fn = "getBestTargets"
    /\ analysis.count = 1
    /\ analysis.value = <<"n2">>
    /\ PassesFilters("n1")
    /\ ScoreGreater("n2", "n1")
    /\ RequiredHackingSkill("darkweb") <= hackingLevel

RECURSIVE Gcd(_, _)
Gcd(a, b) == IF b = 0 THEN a ELSE Gcd(b, a % b)

\* the fraction num / den in lowest terms
Reduced(num, den) ==
    [num |-> num \div Gcd(num, den), den |-> den \div Gcd(num, den)]

\* C19 as stated: the score is throughput / (1 + stabilization-time /
\* one hour), throughput = maxMoney * 0.05 * chance / (cycle time / 1000),
\* stabilization-time = (security gap / 0.05) * weaken time.
C19_ScoreFormula ==
    analysis.fn = "calculateTargetScore" =>
        LET t == analysis.target
            gap == Max(0, secLevel[t] - ServerMinSecurity(t))
            cycleTime == Max(HackTime(t), Max(WeakenTime(t), GrowTime(t)))
            \* throughput in dollars per second = tNum / tDen
            tNum == ServerMaxMoney(t) * HackChance(t)
            tDen == 200 * OneHour * cycleTime
            \* 1 + stabilization-time / one hour = aNum / aDen
            aNum == WEAKEN_AMOUNT * OneHour + gap * WeakenTime(t)
            aDen == WEAKEN_AMOUNT * OneHour
        IN  Reduced(analysis.value.num, analysis.value.den)
                = Reduced(tNum * aDen, tDen * aNum)

\* C19 amended: the denominator also holds the restore estimate, ten grow
\* times when the money is below half of the maximum:
\* score = throughput / (1 + (stabilization-time + restore-time) / one hour).
C19_ScoreWithRestore ==
    analysis.fn = "calculateTargetScore" =>
        LET t == analysis.target
            gap == Max(0, secLevel[t] - ServerMinSecurity(t))
            cycleTime == Max(HackTime(t), Max(WeakenTime(t), GrowTime(t)))
            restore == IF 2 * moneyAvail[t] < ServerMaxMoney(t)
                       THEN 10 * GrowTime(t) ELSE 0
            tNum == ServerMaxMoney(t) * HackChance(t)
            tDen == 200 * OneHour * cycleTime
            aNum == WEAKEN_AMOUNT * OneHour + gap * WeakenTime(t)
                        + WEAKEN_AMOUNT * restore
            aDen == WEAKEN_AMOUNT * OneHour
        IN  Reduced(analysis.value.num, analysis.value.den)
                = Reduced(tNum * aDen, tDen * aNum)

\* the score of a target with a security gap and less than half its money
C19_Witness ==
    /\ analysis.fn = "calculateTargetScore"
    /\ analysis.target = "n2"
    /\ secLevel["n2"] > ServerMinSecurity("n2")
    /\ 2 * moneyAvail["n2"] < ServerMaxMoney("n2")

\* position of a host in the order getAllServers discovers the hosts
DiscoveryIndex(h) ==
    CHOOSE i \in 1..Len(getAllServers) : getAllServers[i] = h

\* a is ranked before b: higher score, or equal score and discovered first
RankedBefore(a, b) ==
    \/ ScoreGreater(a, b)
    \/ /\ ~ScoreGreater(b, a)
       /\ DiscoveryIndex(a) < DiscoveryIndex(b)

\* C20: equal scores keep the discovery order of getAllServers, so the
\* result is determined by topology and state: entry i is the eligible
\* target that exactly i - 1 eligible targets are ranked before, and the
\* result stops at K entries or when the eligible targets run out.
C20_StableTieBreak ==
    analysis.fn = "getBestTargets" =>
        LET result == analysis.value
            eligible == {h \in Hosts : PassesFilters(h)}
        IN  /\ Len(result) = Min(analysis.count, Cardinality(eligible))
            /\ \A i \in 1..Len(result) :
                 /\ result[i] \in eligible
                 /\ Cardinality({h \in eligible :
                                   RankedBefore(h, result[i])}) = i - 1

\* two targets of equal score are returned, the one discovered first ahead
C20_Witness ==
    /\ analysis.fn = "getBestTargets"
    /\ analysis.value = <<"n1", "n2">>
    /\ ~ScoreGreater("n1", "n2")
    /\ ~ScoreGreater("n2", "n1")

\* a tie cut by K = 1: the target discovered first is the one returned
C20_WitnessCut ==
    /\ analysis.fn = "getBestTargets"
    /\ analysis.count = 1
    /\ analysis.value = <<"n1">>
    /\ PassesFilters("n2")
    /\ ~ScoreGreater("n1", "n2")
    /\ ~ScoreGreater("n2", "n1")
(***************************************************************************)
(* Properties of the tracked dispatches and of the status cycle.           *)
(***************************************************************************)
\* the processes the scheduler dispatched: pid 1 is somebody else's
Dispatched == {pid \in DOMAIN procs : pid > 1}

\* this step is a status cycle of status-reporter.js that gets as far as
\* getActiveOperations
ReporterQueries ==
    /\ statusIteration' = statusIteration + 1
    /\ ~HasNoData(port4)
    /\ Peek(port4).targets # <<>>

\* the pids of a sequence of deployments
Pids(deployments) == {deployments[i].pid : i \in 1..Len(deployments)}

\* C21: every ns.exec request that returns a pid > 0 adds exactly one entry
\* to operationStartTimes, keyed by the pid of the started process, holding
\* the target and kind of the call and the start time of the call; a failed
\* request adds none; while a call runs, the keys added are exactly the pids
\* of the deployments added, so the keys a call adds are the pids of the
\* deployments it returns.
C21_DispatchRecording ==
    /\ [][Len(requests') = Len(requests) + 1 =>
            LET r == requests'[Len(requests')]
                added == DOMAIN operationStartTimes' \ DOMAIN operationStartTimes
            IN  IF r.result = "ok"
                THEN /\ added = DOMAIN procs' \ DOMAIN procs
                     /\ Cardinality(added) = 1
                     /\ \A pid \in added :
                          operationStartTimes'[pid] =
                              [target |-> r.target, type |-> r.opType,
                               startTime |-> call.startTime]
                     /\ \A pid \in DOMAIN operationStartTimes :
                          operationStartTimes'[pid] = operationStartTimes[pid]
                ELSE operationStartTimes' = operationStartTimes]_vars
    /\ [][pc' = "loop" =>
            DOMAIN operationStartTimes' \ DOMAIN operationStartTimes
                = Pids(call'.deployments)
                    \ (IF pc = "loop" THEN Pids(call.deployments) ELSE {})]_vars
    /\ [][pc = "loop" /\ pc' # "loop" =>
            /\ operationStartTimes' = operationStartTimes
            /\ call'.deployments = call.deployments]_vars

\* a call returns after one failed and one successful dispatch, in a cycle
\* in which an earlier call has recorded dispatches too
C21_Witness ==
    /\ pc = "calls" /\ call.active /\ call.done
    /\ call.failures >= 1
    /\ Len(call.deployments) >= 1
    /\ DOMAIN operationStartTimes \ Pids(call.deployments) # {}
\* C27: a scheduling cycle that finds no data on the server-list port
\* starts no process, publishes nothing, leaves the tracked entries alone
\* and ends in the sleep of one interval, from which the loop retries; a
\* cycle that finds the list reads it: it enters the loop over the targets
\* or publishes a state made from that list.
C27_NoDataCycle ==
    /\ [][cycle' = cycle + 1 /\ HasNoData(port1) =>
            /\ requests' = <<>>
            /\ procs' = procs
            /\ nextPid' = nextPid
            /\ port4' = port4
            /\ port2' = port2
            /\ port1' = port1
            /\ operationStartTimes' = operationStartTimes
            /\ pc' = "sleep"
            /\ now' = now + 1]_vars
    /\ [][cycle' = cycle + 1 /\ ~HasNoData(port1) =>
            \/ pc' = "target"
            \/ /\ Len(port4') = 1
               /\ Peek(port4').servers = Peek(port1).servers
               /\ Peek(port4').timestamp = now]_vars

\* the second cycle is in its loop over the targets after a first cycle
\* that found no data: time has passed and nothing was published
C27_Witness ==
    /\ cycle = 2
    /\ pc = "target"
    /\ now = 1
    /\ port4 = <<>>
    /\ ~HasNoData(port1)
\* C23 as stated: as long as a dispatched process is live, every status
\* cycle that queries the running operations finds the process's start
\* time in the tracked map it consults.
C23_LiveEntriesKept ==
    [][ReporterQueries =>
          \A pid \in Dispatched :
              pid \in DOMAIN Peek(port4).operationStartTimes]_vars

\* the remaining time the status cycle must report for a live process
Remaining(pid, startTimes) ==
    LET p == procs[pid]
        duration == IF p.type = "hack" THEN HackTime(p.target)
                    ELSE IF p.type = "grow" THEN GrowTime(p.target)
                    ELSE WeakenTime(p.target)
        elapsed == now - startTimes[pid].startTime
    IN  IF pid \notin DOMAIN startTimes THEN 0
        ELSE IF duration - elapsed > 0 THEN duration - elapsed
        ELSE 0

\* C24: every operation getActiveOperations reports belongs to a live
\* process aimed at a tracked target; with a tracked entry its remaining
\* time is max(0, duration - (now - startTime)), the duration being that of
\* the kind its script implies; without one it is 0; it is never negative.
C24_RemainingTime ==
    [][ReporterQueries =>
          \A t \in DOMAIN activeOps' : \A k \in Kinds :
              \A i \in 1..Len(activeOps'[t][k]) :
                  LET op == activeOps'[t][k][i]
                  IN  /\ op.pid \in DOMAIN procs
                      /\ procs[op.pid].type = k
                      /\ procs[op.pid].target = t
                      /\ op.timeRemaining >= 0
                      /\ op.timeRemaining =
                           Remaining(op.pid, Peek(port4).operationStartTimes)]_vars

\* a status has just been made in which one operation has run past its
\* duration, one has time left and one has no tracked entry
C24_Witness ==
    /\ port2 # <<>>
    /\ Peek(port2).timestamp = now
    /\ statusPc = "sleep" /\ pc = "sleep"
    /\ \E t \in DOMAIN activeOps : \E k1, k2, k3 \in Kinds :
         \E i \in 1..Len(activeOps[t][k1]), j \in 1..Len(activeOps[t][k2]),
            l \in 1..Len(activeOps[t][k3]) :
             LET map == Peek(port4).operationStartTimes
                 a == activeOps[t][k1][i]
                 b == activeOps[t][k2][j]
                 c == activeOps[t][k3][l]
             IN  /\ a.pid \in DOMAIN map
                 /\ now - map[a.pid].startTime > Duration(k1, t)
                 /\ a.timeRemaining = 0
                 /\ b.pid \in DOMAIN map
                 /\ b.timeRemaining > 0
                 /\ c.pid \notin DOMAIN map
                 /\ c.timeRemaining = 0

RECURSIVE ThreadsOf(_)
\* the threads of a set of live processes
ThreadsOf(pids) ==
    IF pids = {} THEN 0
    ELSE LET pid == CHOOSE x \in pids : TRUE
         IN  procs[pid].threads + ThreadsOf(pids \ {pid})

\* C25: the published status has one entry for each tracked target; for
\* every kind its count is the number of live worker processes of that kind
\* whose first argument is the target, its threads the sum of their
\* threads, its maxTimeRemaining the largest of their remaining times, 0
\* without any; so a process aimed elsewhere is counted nowhere.
C25_StatusAggregation ==
    [][ReporterQueries =>
          LET tracked == Peek(port4).targets
              status == Peek(port2')
          IN  /\ Len(port2') = 1
              /\ Len(status.targets) = Len(tracked)
              /\ \A i \in 1..Len(tracked) : \A k \in Kinds :
                   LET live == {pid \in DOMAIN procs :
                                   /\ procs[pid].type = k
                                   /\ procs[pid].target = tracked[i]}
                       rem(pid) ==
                           Remaining(pid, Peek(port4).operationStartTimes)
                       figures == status.targets[i].operations[k]
                   IN  /\ status.targets[i].hostname = tracked[i]
                       /\ figures.count = Cardinality(live)
                       /\ figures.threads = ThreadsOf(live)
                       /\ \A pid \in live : rem(pid) <= figures.maxTimeRemaining
                       /\ \/ \E pid \in live :
                                rem(pid) = figures.maxTimeRemaining
                          \/ live = {} /\ figures.maxTimeRemaining = 0]_vars

\* a status has just been published while two weaken processes work on n1
\* and a process aimed at a target that is not tracked is live
C25_Witness ==
    /\ port2 # <<>>
    /\ Peek(port2).timestamp = now
    /\ statusPc = "sleep" /\ pc = "sleep"
    /\ Peek(port4).targets = <<"n1">>
    /\ Peek(port2).targets[1].operations["weaken"].count = 2
    /\ Peek(port2).targets[1].operations["weaken"].threads = 4
    /\ Peek(port2).targets[1].operations["weaken"].maxTimeRemaining > 0
    /\ \E pid \in DOMAIN procs : procs[pid].target = "n2"

\* C26: each port holds at most one message; a port that holds a value
\* never goes back to holding none; a publish leaves exactly the value just
\* made (it carries the time of the publish), never an older one; the
\* readers leave the port they read as it is.
C26_LatestValue ==
    /\ [](Len(port1) <= 1 /\ Len(port2) <= 1 /\ Len(port4) <= 1)
    /\ [][/\ port1 # <<>> => port1' # <<>>
          /\ port2 # <<>> => port2' # <<>>
          /\ port4 # <<>> => port4' # <<>>]_vars
    /\ [][/\ port4' # port4 =>
               port4' = <<Peek(port4')>> /\ Peek(port4').timestamp = now
          /\ port2' # port2 =>
               port2' = <<Peek(port2')>> /\ Peek(port2').timestamp = now]_vars
    /\ [][/\ statusIteration' # statusIteration => port4' = port4
          /\ (cycle' # cycle \/ pc # "sleep") => port1' = port1]_vars

\* the scheduler and the reporter have both published more than once: a
\* process of an earlier cycle is live, the state on port 4 is of a later
\* cycle, and the status on port 2 is newer than that state
C26_Witness ==
    /\ Len(port1) = 1 /\ Len(port2) = 1 /\ Len(port4) = 1
    /\ \E pid \in Dispatched :
         pid \notin DOMAIN Peek(port4).operationStartTimes
    /\ Peek(port4).operationStartTimes # EmptyMap
    /\ Peek(port2).timestamp > Peek(port4).timestamp
    /\ statusIteration >= 2

\* the free capacity a host has at this moment, after the reservation
LiveFree(h, reserved) ==
    ServerMaxRam(h) - usedRam[h] - (IF h = "home" THEN reserved ELSE 0)

\* pool holds exactly the rooted hosts of the list with room for a worker,
\* each with the free capacity it has at this moment
PoolFromLive(pool, servers, reserved) ==
    /\ {pool[i].hostname : i \in 1..Len(pool)}
           = {h \in {servers[i] : i \in 1..Len(servers)} :
                  hasRoot[h] /\ LiveFree(h, reserved) > WORKER_RAM}
    /\ \A i \in 1..Len(pool) :
           pool[i].freeRam = LiveFree(pool[i].hostname, reserved)
    /\ \A i, j \in 1..Len(pool) : pool[i].hostname = pool[j].hostname => i = j

\* C29: the pool a scheduling cycle starts with and the pool a status cycle
\* publishes are made from the values the hosts have at that moment only:
\* what an earlier cycle subtracted from its pool shows in neither.
C29_CycleScopedPool ==
    /\ [][cycle' = cycle + 1 /\ ~HasNoData(port1) =>
            PoolFromLive(ramPool', Peek(port1).servers, reservedRam)]_vars
    /\ [][ReporterQueries =>
            PoolFromLive(Peek(port2').ramPool, Peek(port4).servers,
                         statusReservedRam)]_vars

\* a later cycle is at its first target, after a process of an earlier
\* cycle has ended: worker-0 is back in the pool with more free capacity
\* than the earlier cycle left in its pool
C29_Witness ==
    /\ cycle >= 2
    /\ pc = "target" /\ tgtIdx = 1
    /\ Cardinality(Dispatched) < nextPid - 2
    /\ Dispatched # {}
    /\ ~HasNoData(port4)
    /\ \E i \in 1..Len(ramPool) :
         /\ ramPool[i].hostname = "worker-0"
         /\ ramPool[i].freeRam = LiveFree("worker-0", reservedRam)

(***************************************************************************)
(* Properties of the two-loop scheduler.                                   *)
(***************************************************************************)
\* a step that ends a status cycle of the two-loop scheduler
StatusCycleEnds ==
    \/ statusIteration' # statusIteration /\ statusPc' = "sleep"
    \/ statusPc = "enumerated" /\ statusPc' = "sleep"

\* C22: a status cycle of the two-loop scheduler leaves in the tracked map
\* exactly the entries whose process is live on some node, unchanged; the
\* entry of a process that is no longer live goes in that cycle, whatever
\* time has passed since its start.
C22_TrackerPruning ==
    [][StatusCycleEnds =>
         /\ DOMAIN operationStartTimes' =
                DOMAIN operationStartTimes \cap DOMAIN procs
         /\ \A pid \in DOMAIN operationStartTimes' :
                operationStartTimes'[pid] = operationStartTimes[pid]]_vars

\* C22 witness: every dispatch so far is a weaken of n1, the weaken time has
\* not passed since the start of the run, and a status cycle has removed the
\* entry of a process that ended early while another entry stays
C22_Witness ==
    /\ hackingLevel = 10
    /\ secLevel["n1"] = ServerMinSecurity("n1") + 200
    /\ now < WeakenTime("n1")
    /\ statusPc = "sleep"
    /\ ~HasNoData(port2)
    /\ operationStartTimes # EmptyMap
    /\ \E pid \in 1..(nextPid - 1) :
         /\ pid \notin DOMAIN procs
         /\ pid \notin DOMAIN operationStartTimes

\* a step of the status loop of the two-loop scheduler
StatusStep ==
    \/ statusIteration' # statusIteration
    \/ statusPc' # statusPc
    \/ port2' # port2
    \/ activeOps' # activeOps

\* a step of the scheduling loop of the two-loop scheduler
SchedulingStep ==
    \/ pc # "sleep"
    \/ pc' # "sleep"
    \/ cycle' # cycle

\* C30: in the two-loop scheduler one loop is always at its sleep; a step of
\* the status loop is taken while the scheduling loop sleeps and leaves its
\* state and the processes alone, a step of the scheduling loop is taken
\* while the status loop sleeps and leaves the status alone; an entry leaves
\* the tracked map only while the scheduling loop sleeps and only if its
\* process is not live.
C30_NoInterleaving ==
    /\ [](pc = "sleep" \/ statusPc = "sleep")
    /\ [][StatusStep =>
            /\ pc = "sleep"
            /\ UNCHANGED <<pc, cycle, procs, nextPid, ramPool, targets,
                           sharedState, usedRam, now>>]_vars
    /\ [][SchedulingStep =>
            /\ statusPc = "sleep"
            /\ UNCHANGED reporterVars \/ (pc = "sleep" /\ UNCHANGED
                    <<port2, statusPc, statusIteration, activeOps>>)
            /\ DOMAIN operationStartTimes \subseteq DOMAIN operationStartTimes']_vars
    /\ [][\A pid \in DOMAIN operationStartTimes \ DOMAIN operationStartTimes' :
            pc = "sleep" /\ pid \notin DOMAIN procs]_vars

\* C30 witness: a scheduling cycle is in the middle of its dispatches, with
\* one process of this cycle tracked and live, after a status cycle that
\* pruned the entry of a process of an earlier cycle and published
C30_Witness ==
    /\ pc = "loop"
    /\ cycle >= 2
    /\ statusPc = "sleep"
    /\ ~HasNoData(port2)
    /\ \E pid \in DOMAIN operationStartTimes :
         /\ pid \in DOMAIN procs
         /\ operationStartTimes[pid].startTime = now
    /\ \E pid \in 1..(nextPid - 1) :
         /\ pid \notin DOMAIN procs
         /\ pid \notin DOMAIN operationStartTimes

(***************************************************************************)
(* Properties of the loops under exceptions.                               *)
(***************************************************************************)
\* C28: after a throw in a cycle of scheduler.js or status-reporter.js the
\* only step of that loop is the handler's sleep of one interval: nothing is
\* dispatched or published for the rest of the cycle; the loop is never
\* left, and a later cycle of it begins.
C28_FaultContainment ==
    /\ [][pc = "caught" =>
            /\ pc' = "sleep"
            /\ now' = now + 1
            /\ UNCHANGED <<procs, nextPid, usedRam, port4, cycle,
                           operationStartTimes, calls>>]_vars
    /\ [][statusPc = "caught" =>
            /\ statusPc' = "sleep"
            /\ UNCHANGED <<port2, activeOps, statusIteration>>]_vars
    /\ [](pc \in {"sleep", "target", "calls", "loop", "caught"})
    /\ \A n \in 0..MaxCycles :
          (pc = "caught" /\ cycle = n) ~> (cycle = n + 1)
    /\ \A n \in 0..MaxStatusCycles :
          (statusPc = "caught" /\ statusIteration = n)
              ~> (statusIteration = n + 1)

\* C28 witness: a cycle threw after a dispatch and published nothing, the
\* handler slept, and the next cycle has begun and reached its own dispatches
C28_Witness ==
    /\ pc = "loop"
    /\ cycle >= 2
    /\ port4 = <<>>
    /\ \E pid \in Dispatched : pid \notin DOMAIN operationStartTimes

(***************************************************************************)
(* Properties of the demand of a scheduling cycle.                         *)
(***************************************************************************)
\* the calls a cycle makes for target t, from the live state of t
DemandOf(t) ==
    LET ops == IF isPrepped(t) THEN scheduleHWGWBatch(t)
               ELSE schedulePrepOperations(t)
    IN  [i \in 1..Len(ops) |->
           [target |-> t, opType |-> ops[i].opType, threads |-> ops[i].threads]]

RECURSIVE DemandOfAll(_)
DemandOfAll(ts) ==
    IF ts = <<>> THEN <<>> ELSE DemandOf(Head(ts)) \o DemandOfAll(Tail(ts))

\* the units placed so far for target t by operations of type op
InFlight(t, op) ==
    LET pids == {p \in DOMAIN procs :
                    procs[p].target = t /\ procs[p].type = op}
        RECURSIVE Sum(_)
        Sum(S) == IF S = {} THEN 0
                  ELSE LET p == CHOOSE x \in S : TRUE
                       IN  procs[p].threads + Sum(S \ {p})
    IN  Sum(pids)

\* C31: a scheduling cycle starts from the live state alone (pool and
\* targets rebuilt, no call and no request kept), and the calls it has made
\* at any moment are the first ones of the demand computed from the live
\* state of its targets, whatever earlier cycles left unplaced.
C31_NoCarriedBacklog ==
    /\ [][pc = "sleep" /\ pc' = "target" =>
            /\ ramPool' = buildRamPool(Peek(port1).servers)
            /\ targets' = getBestTargets(TargetCount)
            /\ pending' = <<>>
            /\ calls' = <<>>
            /\ requests' = <<>>
            /\ ~call'.active]_vars
    /\ [](pc # "sleep" =>
            /\ Len(calls) <= Len(DemandOfAll(targets))
            /\ calls = SubSeq(DemandOfAll(targets), 1, Len(calls)))
    /\ [](pc = "target" /\ tgtIdx > Len(targets) =>
            calls = DemandOfAll(targets))

\* C31 witness: a call of a second cycle is running for a target whose
\* demand the processes of the first cycle do not cover
C31_Witness ==
    /\ cycle >= 2
    /\ pc = "loop"
    /\ call.threads > 0
    /\ \E p \in DOMAIN procs : p \notin DOMAIN operationStartTimes
    /\ InFlight(call.target, call.opType) < call.threads

\* C32: the weaken threads running against a target that is above its
\* minimum security never exceed the weakenThreads getPrepNeeds computes
\* for the target's current state.
C32_IdempotentRerequest ==
    \A t \in TargetHosts :
        secLevel[t] > ServerMinSecurity(t) =>
            InFlight(t, "weaken") <= getPrepNeeds(t).weakenThreads

\* no node of the pool has room for one thread
Consumed(pool) ==
    \A i \in 1..Len(pool) : FloorDiv(pool[i].freeRam, WORKER_RAM) = 0

C34_PerNodeDispatchBound ==
    /\ \A i \in 1..Len(requests) :
          /\ requests[i].threads >= 1
          /\ requests[i].threads * WORKER_RAM <= requests[i].free
          /\ requests[i].threads <= requests[i].remaining
    /\ \A i, j \in 1..Len(requests) :
          (i < j /\ requests[i].call = requests[j].call)
              => requests[i].host # requests[j].host

\* C34 witness: one call has filled a node (fewer threads fit than it had
\* left) and then asked the next node for exactly what was left, less than
\* what fits there
C34_Witness ==
    \E i, j \in 1..Len(requests) :
        /\ i < j
        /\ requests[i].call = requests[j].call
        /\ requests[i].threads = FloorDiv(requests[i].free, WORKER_RAM)
        /\ requests[i].threads < requests[i].remaining
        /\ requests[j].threads = requests[j].remaining
        /\ requests[j].threads < FloorDiv(requests[j].free, WORKER_RAM)

(***************************************************************************)
(* Properties of the status reporter without targets.                      *)
(***************************************************************************)
\* C35: a status cycle that finds the scheduler-state channel empty, or a
\* published state with no targets, leaves the status channel as it was.
C35_ReporterFrame ==
    [][(/\ statusIteration' = statusIteration + 1
        /\ (HasNoData(port4) \/ Peek(port4).targets = <<>>))
       => port2' = port2]_vars

\* C35 witness: a status is readable, published before the scheduler's
\* latest state, which has no targets, and status cycles have run
C35_Witness ==
    /\ statusIteration >= 2
    /\ statusPc = "sleep"
    /\ ~HasNoData(port2)
    /\ ~HasNoData(port4)
    /\ Peek(port4).targets = <<>>
    /\ Peek(port2).targets # <<>>

(***************************************************************************)
(* The purchase decision of server-manager (shouldPurchaseServer).         *)
(* Money and costs are whole dollars. nsValues holds what the ns queries   *)
(* of one call return: the money on home, the number of purchased servers, *)
(* their limit, the largest purchasable RAM and the price of one GB.       *)
(***************************************************************************)
MaxPurchaseExp == 3
MaxMoney == 6
MaxOwned == 2

\* the RAM sizes ns.getPurchasedServerMaxRam() can return: powers of two
PurchaseMaxRams == {8 * Pow2(k) : k \in 0..MaxPurchaseExp}

PurchaseInputs ==
    [currentMoney : {100 * k : k \in 0..MaxMoney}, owned : 0..MaxOwned,
     limit : 0..MaxOwned, maxRam : PurchaseMaxRams, costPerGb : 1..2]

\* ns.getPurchasedServerCost(ram): the price of a size that can be bought,
\* Infinity of any other size
getPurchasedServerCost(v, ram) ==
    IF ram >= 1 /\ ram <= v.maxRam /\ (\E k \in 0..20 : ram = Pow2(k))
    THEN [finite |-> TRUE, dollars |-> ram * v.costPerGb]
    ELSE [finite |-> FALSE, dollars |-> 0]

\* faulty variant of WithinBudget: the whole money is the budget
WithinBudget_WholeMoney(cost, currentMoney) ==
    cost.finite /\ cost.dollars <= currentMoney

\* cost <= budget with budget = currentMoney * 0.25 (lines 317, 330, 338)
WithinBudget(cost, currentMoney) ==
    cost.finite /\ 4 * cost.dollars <= currentMoney

RECURSIVE LargestAffordable(_, _)
\* the while loop of lines 327-334, entered with ram
LargestAffordable(v, ram) ==
    IF ram <= v.maxRam
    THEN IF ~WithinBudget(getPurchasedServerCost(v, ram * 2), v.currentMoney)
         THEN ram
         ELSE LargestAffordable(v, ram * 2)
    ELSE ram

NoPurchase == [purchase |-> FALSE, ram |-> 0, name |-> ""]

shouldPurchaseServer(v) ==
    IF v.owned >= v.limit THEN NoPurchase
    ELSE LET ram == LargestAffordable(v, 8)
             cost == getPurchasedServerCost(v, ram)
         IN  IF ram >= 8 /\ WithinBudget(cost, v.currentMoney)
             THEN [purchase |-> TRUE, ram |-> ram,
                   name |-> <<"worker", v.owned>>]
             ELSE NoPurchase

InitPurchase ==
    /\ SchedulerIdle
    /\ nsValues \in PurchaseInputs
    /\ analysis = NoAnalysis

\* shouldPurchaseServer(ns) is called and returns
CallShouldPurchaseServer ==
    /\ pc = "analyzer"
    /\ analysis' = [fn |-> "shouldPurchaseServer",
                    value |-> shouldPurchaseServer(nsValues)]
    /\ UNCHANGED nsValues
    /\ UNCHANGED schedulerVars

\* the game moves on: money is earned or spent, a server is bought
PurchaseValuesChange ==
    /\ pc = "analyzer"
    /\ nsValues' \in PurchaseInputs \ {nsValues}
    /\ nsValues'.maxRam = nsValues.maxRam
    /\ nsValues'.costPerGb = nsValues.costPerGb
    /\ nsValues'.limit = nsValues.limit
    /\ analysis' = NoAnalysis
    /\ UNCHANGED schedulerVars

NextPurchase ==
    \/ CallShouldPurchaseServer
    \/ PurchaseValuesChange

SpecPurchase == InitPurchase /\ [][NextPurchase]_vars

\* C39: shouldPurchaseServer answers purchase = true only with fewer owned
\* servers than the limit and a RAM size whose cost is at most a quarter of
\* the money; that size is a power of two from 8 to the largest purchasable
\* RAM.
C39_PurchaseDecision ==
    (analysis.fn = "shouldPurchaseServer" /\ analysis.value.purchase) =>
        LET r == analysis.value
        IN  /\ nsValues.owned < nsValues.limit
            /\ 4 * r.ram * nsValues.costPerGb <= nsValues.currentMoney
            /\ \E k \in 3..20 : r.ram = Pow2(k)
            /\ r.ram >= 8
            /\ r.ram <= nsValues.maxRam

\* C39 witness: a purchase of more than 8 GB and less than the largest size
\* is decided, the next size being out of budget
C39_Witness ==
    /\ analysis.fn = "shouldPurchaseServer"
    /\ analysis.value.purchase
    /\ analysis.value.ram > 8
    /\ analysis.value.ram < nsValues.maxRam
    /\ 4 * 2 * analysis.value.ram * nsValues.costPerGb > nsValues.currentMoney

(***************************************************************************)
(* The launcher (hack-v1/launcher.js) and shutdown.js.  The launcher runs  *)
(* the manager and the scheduler as processes of their own and watches     *)
(* PORT_CONTROL.  Its main is synchronous from its first line to the first *)
(* await of the loop: the other scripts and the player act only while it   *)
(* awaits deployAllScripts or ns.sleep, or while no launcher runs.         *)
(***************************************************************************)
MaxLauncherNow == 3
MaxSignals == 2
MaxLauncherPids == 4

\* ns.getScriptRam of a script, in quarters of a GB
ScriptRam(type) ==
    CASE type = "manager" -> 16
      [] type = "scheduler" -> 32
      [] OTHER -> WORKER_RAM

\* the variables no step of the launcher or of its environment changes
launcherFrame ==
    <<hasRoot, secLevel, moneyAvail, hackingLevel, port1, port4, pc, cycle,
      ramPool, targets, tgtIdx, pending, call, operationStartTimes, calls,
      requests, analyzerVars, reporterVars, managerVars>>

\* ns.isRunning(pid)
isRunning(pid) == pid \in DOMAIN procs

RECURSIVE RamOfProcs(_, _)
\* the RAM the processes of the map running hold on host h
RamOfProcs(running, h) ==
    IF DOMAIN running = {} THEN 0
    ELSE LET pid == CHOOSE p \in DOMAIN running : TRUE
             rest == [p \in DOMAIN running \ {pid} |-> running[p]]
         IN  (IF running[pid].host = h
              THEN ScriptRam(running[pid].type) * running[pid].threads
              ELSE 0)
             + RamOfProcs(rest, h)

\* the processes left and the RAM in use after the game killed the set pids
AfterKill(pids) ==
    LET left == [p \in DOMAIN procs \ pids |-> procs[p]]
        gone == [p \in DOMAIN procs \cap pids |-> procs[p]]
    IN  [procs |-> left,
         usedRam |-> [h \in Hosts |-> usedRam[h] - RamOfProcs(gone, h)]]

\* ns.scriptKill(script, hostname) for every script of types on every rooted
\* server: the pids that are killed
ScriptKillOnRooted(types) ==
    {p \in DOMAIN procs : hasRoot[procs[p].host] /\ procs[p].type \in types}

\* lines 386-406: the five system scripts are killed on every rooted server
StartupKills == ScriptKillOnRooted({"manager", "scheduler"} \cup OpTypes)

\* faulty variant of killAllSystemProcesses: the workers are left running
killAllSystemProcesses_KeepsWorkers(mPid, sPid) ==
    (IF mPid > 0 THEN {mPid} ELSE {}) \cup (IF sPid > 0 THEN {sPid} ELSE {})

\* lines 782-819: the pids killAllSystemProcesses kills
killAllSystemProcesses(mPid, sPid) ==
    (IF mPid > 0 THEN {mPid} ELSE {})
    \cup (IF sPid > 0 THEN {sPid} ELSE {})
    \cup ScriptKillOnRooted(OpTypes)

RECURSIVE FirstFit(_, _)
\* lines 655-662: the first rooted server other than home with enough free
\* RAM, "" when there is none
FirstFit(servers, scriptRam) ==
    IF servers = <<>> THEN ""
    ELSE LET h == Head(servers)
         IN  IF /\ hasRoot[h]
                /\ h # "home"
                /\ ServerMaxRam(h) - usedRam[h] >= scriptRam
             THEN h
             ELSE FirstFit(Tail(servers), scriptRam)

\* lines 635-679: the hostname of the result, "" for null
findServerForScript(type) ==
    LET scriptRam == ScriptRam(type)
        other == FirstFit(getAllServers, scriptRam)
    IN  IF other # "" THEN other
        ELSE IF ServerMaxRam("home") - usedRam["home"] >= scriptRam
             THEN "home"
             ELSE ""

\* ns.exec(script, host, 1): the pid of the new process, 0 when the host has
\* not the RAM
ExecPid(type, host) ==
    IF hasRoot[host] /\ ServerMaxRam(host) - usedRam[host] >= ScriptRam(type)
    THEN nextPid
    ELSE 0

\* the game after ns.exec(script, host, 1) returned pid, and the request
AfterExec(type, host, pid) ==
    /\ procs' = IF pid > 0
                THEN (pid :> [host |-> host, type |-> type, target |-> "",
                              threads |-> 1]) @@ procs
                ELSE procs
    /\ usedRam' = IF pid > 0
                  THEN [usedRam EXCEPT ![host] = @ + ScriptRam(type)]
                  ELSE usedRam
    /\ nextPid' = IF pid > 0 THEN nextPid + 1 ELSE nextPid
    /\ startRequests' =
           Append(startRequests,
                  [type |-> type, host |-> host, pid |-> pid,
                   cycle |-> IF launcherPc = "check" THEN launcherCycle + 1
                             ELSE launcherCycle,
                   recorded |-> IF type = "manager" THEN managerPid
                                ELSE schedulerPid,
                   wasRunning |-> isRunning(IF type = "manager"
                                            THEN managerPid
                                            ELSE schedulerPid)])

\* nothing is started
NoExec == UNCHANGED <<procs, usedRam, nextPid, startRequests>>

\* faulty variant of LauncherStart: the control port is cleared on the way
LauncherStart_ClearsControl ==
    /\ launcherPc \in {"off", "exited"}
    /\ now < MaxLauncherNow
    /\ now' = now + 1
    /\ procs' = AfterKill(StartupKills).procs
    /\ usedRam' = AfterKill(StartupKills).usedRam
    /\ launcherPc' = "check"
    /\ launcherCycle' = 0
    /\ managerPid' = 0
    /\ schedulerPid' = 0
    /\ managerHost' = "home"
    /\ schedulerHost' = "home"
    /\ lastDeployedServer' = ""
    /\ port3' = ClearPort(port3)
    /\ UNCHANGED <<nextPid, startRequests>>
    /\ UNCHANGED launcherFrame

\* lines 378-456: the player runs launcher.js; the old system scripts are
\* killed, the required files exist, the locals are initialised and the
\* loop is entered
LauncherStart ==
    /\ launcherPc \in {"off", "exited"}
    /\ now < MaxLauncherNow
    /\ now' = now + 1
    /\ procs' = AfterKill(StartupKills).procs
    /\ usedRam' = AfterKill(StartupKills).usedRam
    /\ launcherPc' = "check"
    /\ launcherCycle' = 0
    /\ managerPid' = 0
    /\ schedulerPid' = 0
    /\ managerHost' = "home"
    /\ schedulerHost' = "home"
    /\ lastDeployedServer' = ""
    /\ UNCHANGED <<nextPid, port3, startRequests>>
    /\ UNCHANGED launcherFrame

\* lines 378-436: the player runs launcher.js and a required file is
\* missing; the old system scripts are killed and main returns
LauncherStartFails ==
    /\ launcherPc \in {"off", "exited"}
    /\ now < MaxLauncherNow
    /\ now' = now + 1
    /\ procs' = AfterKill(StartupKills).procs
    /\ usedRam' = AfterKill(StartupKills).usedRam
    /\ launcherPc' = "off"
    /\ UNCHANGED <<launcherCycle, managerPid, schedulerPid, managerHost,
                   schedulerHost, lastDeployedServer, nextPid, port3,
                   startRequests>>
    /\ UNCHANGED launcherFrame

\* ns.peek(PORT_CONTROL) === "SHUTDOWN"
ShutdownSignalled == ~HasNoData(port3) /\ Peek(port3) = "SHUTDOWN"

\* lines 460-467: the shutdown signal is read, the system is killed, main
\* returns
LauncherShutdown ==
    /\ launcherPc = "check"
    /\ ShutdownSignalled
    /\ port3' = Tail(port3)
    /\ LET killed == killAllSystemProcesses(managerPid, schedulerPid)
       IN  /\ procs' = AfterKill(killed).procs
           /\ usedRam' = AfterKill(killed).usedRam
    /\ launcherPc' = "exited"
    /\ launcherCycle' = launcherCycle + 1
    /\ UNCHANGED <<managerPid, schedulerPid, managerHost, schedulerHost,
                   lastDeployedServer, nextPid, now, startRequests>>
    /\ UNCHANGED launcherFrame

\* faulty variant of ManagerNeedsStart: the recorded pid is not looked at
ManagerNeedsStart_Always == TRUE

\* line 470
ManagerNeedsStart == ~isRunning(managerPid)

\* lines 469-527: no shutdown signal; the manager is looked after, up to the
\* await of deployAllScripts or to the end of step 1
LauncherManager ==
    /\ launcherPc = "check"
    /\ ~ShutdownSignalled
    /\ launcherCycle' = launcherCycle + 1
    /\ LET host == findServerForScript("manager")
       IN  IF ~ManagerNeedsStart \/ host = ""
           THEN /\ launcherPc' = "scheduler"
                /\ NoExec
                /\ UNCHANGED <<managerPid, managerHost, lastDeployedServer>>
           ELSE /\ managerHost' = host
                /\ IF host # lastDeployedServer /\ host # "home"
                   THEN /\ launcherPc' = "deployManager"
                        /\ NoExec
                        /\ UNCHANGED <<managerPid, lastDeployedServer>>
                   ELSE /\ launcherPc' = "scheduler"
                        /\ lastDeployedServer' = host
                        /\ managerPid' = ExecPid("manager", host)
                        /\ AfterExec("manager", host, ExecPid("manager", host))
    /\ UNCHANGED <<schedulerPid, schedulerHost, port3, now>>
    /\ UNCHANGED launcherFrame

\* lines 483-504: deployAllScripts returns; the manager is started when it
\* returned true
ManagerDeployed ==
    /\ launcherPc = "deployManager"
    /\ launcherPc' = "scheduler"
    /\ \E deployed \in BOOLEAN :
         IF deployed
         THEN /\ lastDeployedServer' = managerHost
              /\ managerPid' = ExecPid("manager", managerHost)
              /\ AfterExec("manager", managerHost,
                           ExecPid("manager", managerHost))
         ELSE /\ NoExec
              /\ UNCHANGED <<managerPid, lastDeployedServer>>
    /\ UNCHANGED <<launcherCycle, managerHost, schedulerPid, schedulerHost,
                   port3, now>>
    /\ UNCHANGED launcherFrame

\* lines 529-577: the scheduler is looked after, up to the await of
\* deployAllScripts or to the ns.sleep of step 4
LauncherScheduler ==
    /\ launcherPc = "scheduler"
    /\ LET host == findServerForScript("scheduler")
       IN  IF isRunning(schedulerPid) \/ host = ""
           THEN /\ launcherPc' = "sleep"
                /\ NoExec
                /\ UNCHANGED <<schedulerPid, schedulerHost,
                               lastDeployedServer>>
           ELSE /\ schedulerHost' = host
                /\ IF host # lastDeployedServer /\ host # "home"
                   THEN /\ launcherPc' = "deployScheduler"
                        /\ NoExec
                        /\ UNCHANGED <<schedulerPid, lastDeployedServer>>
                   ELSE /\ launcherPc' = "sleep"
                        /\ lastDeployedServer' = host
                        /\ schedulerPid' = ExecPid("scheduler", host)
                        /\ AfterExec("scheduler", host,
                                     ExecPid("scheduler", host))
    /\ UNCHANGED <<launcherCycle, managerPid, managerHost, port3, now>>
    /\ UNCHANGED launcherFrame

\* lines 543-564: deployAllScripts returns; the scheduler is started when
\* it returned true
SchedulerDeployed ==
    /\ launcherPc = "deployScheduler"
    /\ launcherPc' = "sleep"
    /\ \E deployed \in BOOLEAN :
         IF deployed
         THEN /\ lastDeployedServer' = schedulerHost
              /\ schedulerPid' = ExecPid("scheduler", schedulerHost)
              /\ AfterExec("scheduler", schedulerHost,
                           ExecPid("scheduler", schedulerHost))
         ELSE /\ NoExec
              /\ UNCHANGED <<schedulerPid, lastDeployedServer>>
    /\ UNCHANGED <<launcherCycle, managerPid, managerHost, schedulerHost,
                   port3, now>>
    /\ UNCHANGED launcherFrame

\* line 592: ns.sleep(LOOP_DELAY) returns and the next cycle begins
LauncherWake ==
    /\ launcherPc = "sleep"
    /\ now < MaxLauncherNow
    /\ now' = now + 1
    /\ launcherPc' = "check"
    /\ UNCHANGED <<launcherCycle, managerPid, schedulerPid, managerHost,
                   schedulerHost, lastDeployedServer, port3, startRequests,
                   procs, usedRam, nextPid>>
    /\ UNCHANGED launcherFrame

\* the launcher is at an await, or none is running
LauncherSuspended ==
    launcherPc \in {"off", "exited", "sleep", "deployManager",
                    "deployScheduler"}

\* the player kills the launcher; its manager and scheduler run on
LauncherKilled ==
    /\ launcherPc \in {"sleep", "deployManager", "deployScheduler"}
    /\ launcherPc' = "off"
    /\ UNCHANGED <<launcherCycle, managerPid, schedulerPid, managerHost,
                   schedulerHost, lastDeployedServer, port3, startRequests,
                   procs, usedRam, nextPid, now>>
    /\ UNCHANGED launcherFrame

\* shutdown.js lines 2-12: the player runs shutdown.js
ShutdownRun ==
    /\ LauncherSuspended
    /\ Len(port3) < MaxSignals
    /\ port3' = WritePort(port3, "SHUTDOWN")
    /\ UNCHANGED <<launcherPc, launcherCycle, managerPid, schedulerPid,
                   managerHost, schedulerHost, lastDeployedServer,
                   startRequests, procs, usedRam, nextPid, now>>
    /\ UNCHANGED launcherFrame

\* a process ends: the manager or the scheduler crashes or is killed by the
\* player, a worker returns
ScriptDies ==
    /\ LauncherSuspended
    /\ \E pid \in DOMAIN procs :
         /\ procs' = AfterKill({pid}).procs
         /\ usedRam' = AfterKill({pid}).usedRam
    /\ UNCHANGED <<launcherPc, launcherCycle, managerPid, schedulerPid,
                   managerHost, schedulerHost, lastDeployedServer, port3,
                   startRequests, nextPid, now>>
    /\ UNCHANGED launcherFrame

\* a running scheduler fills a rooted server with the threads of a worker
WorkerStarts ==
    /\ LauncherSuspended
    /\ nextPid < MaxLauncherPids
    /\ \E pid \in DOMAIN procs : procs[pid].type = "scheduler"
    /\ \E h \in {"worker-0", "home"} :
         LET threads == FloorDiv(ServerMaxRam(h) - usedRam[h], WORKER_RAM)
         IN  /\ hasRoot[h]
             /\ threads > 0
             /\ procs' = (nextPid :> [host |-> h, type |-> "weaken",
                                      target |-> "n1",
                                      threads |-> threads]) @@ procs
             /\ usedRam' = [usedRam EXCEPT ![h] = @ + threads * WORKER_RAM]
             /\ nextPid' = nextPid + 1
    /\ UNCHANGED <<launcherPc, launcherCycle, managerPid, schedulerPid,
                   managerHost, schedulerHost, lastDeployedServer, port3,
                   startRequests, now>>
    /\ UNCHANGED launcherFrame

\* no launcher has been run; n1 is rooted or not
InitLauncher ==
    /\ hasRoot \in {[h \in Hosts |-> h \in {"home", "worker-0"} \cup r] :
                       r \in SUBSET {"n1"}}
    /\ usedRam = [h \in Hosts |-> 0]
    /\ procs = EmptyMap
    /\ nextPid = 1
    /\ now = 0
    /\ port1 = <<>>
    /\ port4 = <<>>
    /\ pc = "analyzer"
    /\ cycle = 0
    /\ ramPool = <<>>
    /\ targets = <<>>
    /\ tgtIdx = 1
    /\ pending = <<>>
    /\ call = NoCall
    /\ operationStartTimes = EmptyMap
    /\ calls = <<>>
    /\ requests = <<>>
    /\ secLevel = [t \in TargetHosts |-> ServerMinSecurity(t)]
    /\ moneyAvail = [t \in TargetHosts |-> ServerMaxMoney(t)]
    /\ hackingLevel = 1
    /\ nsValues = NoValues
    /\ analysis = NoAnalysis
    /\ ReporterIdle
    /\ SystemIdle

NextLauncher ==
    \/ LauncherStart
    \/ LauncherStartFails
    \/ LauncherShutdown
    \/ LauncherManager
    \/ ManagerDeployed
    \/ LauncherScheduler
    \/ SchedulerDeployed
    \/ LauncherWake
    \/ LauncherKilled
    \/ ShutdownRun
    \/ ScriptDies
    \/ WorkerStarts

SpecLauncher == InitLauncher /\ [][NextLauncher]_vars

(***************************************************************************)
(* Properties of the launcher.                                             *)
(***************************************************************************)
\* the processes of a script that are running
RunningOf(type) == {p \in DOMAIN procs : procs[p].type = type}

\* the free RAM of a host
FreeOn(h) == ServerMaxRam(h) - usedRam[h]

\* C36: the launcher issues a start request for the manager or the scheduler
\* only when the pid it recorded for it last is not running, and records the
\* pid the request returns; at most one manager and one scheduler run at any
\* time; in a cycle that finds the recorded pid not running and a server
\* with enough free RAM, the script is started once the deployment, where
\* one is needed, has succeeded and the RAM is still free.
C36_LauncherSupervision ==
    /\ [][startRequests' # startRequests =>
            LET r == startRequests'[Len(startRequests')]
            IN  /\ Len(startRequests') = Len(startRequests) + 1
                /\ launcherPc \in {"check", "deployManager", "scheduler",
                                   "deployScheduler"}
                /\ ~r.wasRunning
                /\ r.type = "manager" =>
                       /\ r.recorded = managerPid
                       /\ ~isRunning(managerPid)
                       /\ managerPid' = r.pid
                /\ r.type = "scheduler" =>
                       /\ r.recorded = schedulerPid
                       /\ ~isRunning(schedulerPid)
                       /\ schedulerPid' = r.pid]_vars
    /\ [](Cardinality(RunningOf("manager")) <= 1)
    /\ [](Cardinality(RunningOf("scheduler")) <= 1)
    /\ [][(/\ launcherPc = "check"
           /\ launcherPc' = "scheduler"
           /\ ~isRunning(managerPid)
           /\ findServerForScript("manager") # "")
          => (managerPid' \in RunningOf("manager")')]_vars
    /\ [][(/\ launcherPc = "deployManager"
           /\ lastDeployedServer' = managerHost
           /\ FreeOn(managerHost) >= ScriptRam("manager"))
          => (managerPid' \in RunningOf("manager")')]_vars
    /\ [][(/\ launcherPc = "scheduler"
           /\ launcherPc' = "sleep"
           /\ ~isRunning(schedulerPid)
           /\ findServerForScript("scheduler") # "")
          => (schedulerPid' \in RunningOf("scheduler")')]_vars
    /\ [][(/\ launcherPc = "deployScheduler"
           /\ lastDeployedServer' = schedulerHost
           /\ FreeOn(schedulerHost) >= ScriptRam("scheduler"))
          => (schedulerPid' \in RunningOf("scheduler")')]_vars

\* C36 witness: a manager the launcher started died and a later cycle of the
\* same launcher started another one, which runs beside the scheduler
C36_Witness ==
    /\ launcherPc = "sleep"
    /\ isRunning(managerPid)
    /\ isRunning(schedulerPid)
    /\ \E i, j \in 1..Len(startRequests) :
         /\ i < j
         /\ startRequests[i].type = "manager"
         /\ startRequests[j].type = "manager"
         /\ startRequests[i].pid > 0
         /\ startRequests[j].recorded = startRequests[i].pid
         /\ startRequests[j].pid = managerPid
         /\ startRequests[i].cycle < startRequests[j].cycle

\* the worker processes on rooted servers
WorkersOnRooted ==
    {p \in DOMAIN procs : procs[p].type \in OpTypes /\ hasRoot[procs[p].host]}

\* C37: a launcher that finds "SHUTDOWN" at the head of the control port
\* takes it off the port, kills the manager and the scheduler it recorded
\* and every worker on every rooted server, and returns; having returned it
\* issues no start request.
C37_ShutdownProtocol ==
    /\ [][(launcherPc = "check" /\ ShutdownSignalled) =>
            /\ port3' = Tail(port3)
            /\ launcherPc' = "exited"
            /\ ~isRunning(managerPid)'
            /\ ~isRunning(schedulerPid)'
            /\ WorkersOnRooted' = {}
            /\ UNCHANGED <<startRequests, nextPid, managerPid, schedulerPid>>
          ]_vars
    /\ [][launcherPc = "exited" =>
            /\ startRequests' = startRequests
            /\ launcherPc' \in {"exited", "off", "check"}
            /\ launcherPc' = "check" => launcherCycle' = 0]_vars

\* C37 witness: a launcher that had started the manager and the scheduler,
\* with workers started since, has returned in a later cycle: the signal is
\* consumed and nothing of the system runs
C37_Witness ==
    /\ launcherPc = "exited"
    /\ launcherCycle >= 2
    /\ managerPid > 0
    /\ schedulerPid > 0
    /\ nextPid > 3
    /\ port3 = <<>>
    /\ procs = EmptyMap
    /\ usedRam = [h \in Hosts |-> 0]

\* C40: while no launcher runs the control port only grows; a launcher that
\* starts leaves the port as it is, and when "SHUTDOWN" is at its head the
\* first cycle of that launcher takes it off the port and returns, no start
\* request issued.
C40_ShutdownSignalKept ==
    /\ [][(launcherPc = "off" \/ launcherPc = "exited") =>
            \/ port3' = port3
            \/ port3' = Append(port3, "SHUTDOWN")]_vars
    /\ [][(launcherPc \in {"off", "exited"} /\ launcherPc' = "check") =>
            /\ port3' = port3
            /\ launcherCycle' = 0
            /\ managerPid' = 0
            /\ schedulerPid' = 0]_vars
    /\ [][(launcherPc = "check" /\ launcherCycle = 0 /\ ShutdownSignalled) =>
            /\ launcherPc' = "exited"
            /\ launcherCycle' = 1
            /\ port3' = Tail(port3)
            /\ startRequests' = startRequests
            /\ RunningOf("manager")' = {}
            /\ RunningOf("scheduler")' = {}]_vars

\* C40 witness: two signals were written while no launcher ran; the launcher
\* started next has returned in its first cycle, one signal consumed and
\* nothing started
C40_Witness ==
    /\ launcherPc = "exited"
    /\ launcherCycle = 1
    /\ startRequests = <<>>
    /\ managerPid = 0
    /\ schedulerPid = 0
    /\ port3 = <<"SHUTDOWN">>
    /\ now = 1

(***************************************************************************)
(* The manager (scripts/pre-commit.js lines 95-140) and rootServer of      *)
(* server-manager.  A cycle of the manager is synchronous up to the await  *)
(* of deployWorkers; the loop of the orchestrator (orchestrator.js lines   *)
(* 21-35) has the same steps 1 and 2.                                      *)
(***************************************************************************)
MaxManagerCycles == 3
MaxOpeners == 2

\* ns.getServerNumPortsRequired(hostname)
ServerNumPortsRequired(h) ==
    CASE h = "n2" -> 1
      [] h = "darkweb" -> 2
      [] OTHER -> 0

\* scanAllServers(ns): the servers of the network in breadth-first order; a
\* purchased server is a neighbour of home once it is bought
scanAllServers ==
    SelectSeq(getAllServers,
              LAMBDA h : h \notin PurchasedServers \/ h \in purchased)

\* rootServer(ns, hostname) with root access as in root: every opener on
\* home is run, and the server is nuked when they open enough ports
rootServer(root, h) ==
    IF root[h] THEN TRUE
    ELSE openers >= ServerNumPortsRequired(h)

\* faulty variant of KnownAfter: a server is known once it is rooted
KnownAfter_OnlyRooted(known, server, rooted) ==
    IF rooted THEN known \cup {server} ELSE known

\* line 116: knownServers.add(server), whatever rootServer returned
KnownAfter(known, server, rooted) == known \cup {server}

RECURSIVE RootNew(_, _)
\* lines 109-118: the for loop over the servers left, from the state st of
\* knownServers, of the root accesses and of the calls of rootServer
RootNew(servers, st) ==
    IF servers = <<>> THEN st
    ELSE LET server == Head(servers)
         IN  IF server \in st.known THEN RootNew(Tail(servers), st)
             ELSE LET rooted == rootServer(st.root, server)
                  IN  RootNew(Tail(servers),
                              [known |-> KnownAfter(st.known, server, rooted),
                               root |-> [st.root EXCEPT ![server] = rooted],
                               rootCalls |-> [st.rootCalls EXCEPT
                                                ![server] = @ + 1]])

\* the variables no step of the manager or of its environment changes
managerFrame ==
    <<usedRam, secLevel, moneyAvail, hackingLevel, procs, nextPid, now, port4,
      pc, cycle, ramPool, targets, tgtIdx, pending, call,
      operationStartTimes, calls, requests, analyzerVars, reporterVars,
      launcherVars>>

\* lines 103-133: one cycle of the manager, the list published; or
\* deployWorkers throws and the catch of the loop sleeps
ManagerCycle ==
    /\ managerCycle < MaxManagerCycles
    /\ managerCycle' = managerCycle + 1
    /\ LET allServers == scanAllServers
           st == RootNew(allServers, [known |-> knownServers, root |-> hasRoot,
                                      rootCalls |-> rootCalls])
       IN  /\ knownServers' = st.known
           /\ hasRoot' = st.root
           /\ rootCalls' = st.rootCalls
           /\ \E thrown \in BOOLEAN :
                port1' = IF thrown THEN port1
                         ELSE WritePort(ClearPort(port1),
                                        [servers |-> allServers])
    /\ UNCHANGED <<purchased, openers>>
    /\ UNCHANGED managerFrame

\* the launcher starts the manager anew: its main begins with no server
\* known
ManagerRestart ==
    /\ managerCycle > 0
    /\ managerCycle' = 0
    /\ knownServers' = {}
    /\ rootCalls' = [h \in Hosts |-> 0]
    /\ UNCHANGED <<hasRoot, port1, purchased, openers>>
    /\ UNCHANGED managerFrame

\* the player acquires a port opener
OpenerAcquired ==
    /\ openers < MaxOpeners
    /\ openers' = openers + 1
    /\ UNCHANGED <<hasRoot, port1, knownServers, rootCalls, managerCycle,
                   purchased>>
    /\ UNCHANGED managerFrame

\* a server is purchased: it is rooted and joins the network
ServerPurchased ==
    /\ \E s \in PurchasedServers \ purchased :
         /\ purchased' = purchased \cup {s}
         /\ hasRoot' = [hasRoot EXCEPT ![s] = TRUE]
    /\ UNCHANGED <<port1, knownServers, rootCalls, managerCycle, openers>>
    /\ UNCHANGED managerFrame

\* the player roots a server by hand
PlayerRoots ==
    /\ \E h \in {"n1", "n2"} :
         /\ ~hasRoot[h]
         /\ openers >= ServerNumPortsRequired(h)
         /\ hasRoot' = [hasRoot EXCEPT ![h] = TRUE]
    /\ UNCHANGED <<port1, knownServers, rootCalls, managerCycle, purchased,
                   openers>>
    /\ UNCHANGED managerFrame

\* the manager has just been started: home is rooted, no server is bought
InitManager ==
    /\ hasRoot = [h \in Hosts |-> h = "home"]
    /\ usedRam = [h \in Hosts |-> 0]
    /\ procs = EmptyMap
    /\ nextPid = 1
    /\ now = 0
    /\ port1 = <<>>
    /\ port4 = <<>>
    /\ pc = "analyzer"
    /\ cycle = 0
    /\ ramPool = <<>>
    /\ targets = <<>>
    /\ tgtIdx = 1
    /\ pending = <<>>
    /\ call = NoCall
    /\ operationStartTimes = EmptyMap
    /\ calls = <<>>
    /\ requests = <<>>
    /\ secLevel = [t \in TargetHosts |-> ServerMinSecurity(t)]
    /\ moneyAvail = [t \in TargetHosts |-> ServerMaxMoney(t)]
    /\ hackingLevel = 1
    /\ nsValues = NoValues
    /\ analysis = NoAnalysis
    /\ ReporterIdle
    /\ launcherPc = "off"
    /\ launcherCycle = 0
    /\ managerPid = 0
    /\ schedulerPid = 0
    /\ managerHost = "home"
    /\ schedulerHost = "home"
    /\ lastDeployedServer = ""
    /\ port3 = <<>>
    /\ startRequests = <<>>
    /\ knownServers = {}
    /\ rootCalls = [h \in Hosts |-> 0]
    /\ managerCycle = 0
    /\ purchased = {}
    /\ openers \in 0..1

NextManager ==
    \/ ManagerCycle
    \/ ManagerRestart
    \/ OpenerAcquired
    \/ ServerPurchased
    \/ PlayerRoots

SpecManager == InitManager /\ [][NextManager]_vars

(***************************************************************************)
(* Properties of the manager.                                              *)
(***************************************************************************)
\* C38: a run of the manager calls rootServer on a server at most once, in
\* the cycle that finds the server outside knownServers, and that cycle
\* adds the server to knownServers whatever the call returned; a server in
\* knownServers without root access is not attempted again by a later cycle
\* of the run.
C38_RootAttemptedOnce ==
    /\ [](\A h \in Hosts :
            /\ rootCalls[h] <= 1
            /\ rootCalls[h] = 1 <=> h \in knownServers)
    /\ [][\A h \in Hosts :
            rootCalls'[h] > rootCalls[h] =>
                /\ managerCycle' = managerCycle + 1
                /\ h \notin knownServers
                /\ \E i \in 1..Len(scanAllServers) : scanAllServers[i] = h
                /\ h \in knownServers']_vars
    /\ [][\A h \in knownServers :
            (managerCycle' = managerCycle + 1 /\ ~hasRoot[h]) =>
                /\ rootCalls'[h] = rootCalls[h]
                /\ ~hasRoot'[h]
                /\ h \in knownServers']_vars

\* C38 witness: n2 was attempted in the first cycle, without the opener it
\* needs, and is known and unrooted after a later cycle run with the opener
\* at hand; worker-0 was bought after the first cycle and attempted once
C38_Witness ==
    /\ managerCycle >= 2
    /\ "n2" \in knownServers
    /\ ~hasRoot["n2"]
    /\ rootCalls["n2"] = 1
    /\ openers >= ServerNumPortsRequired("n2")
    /\ rootCalls["worker-0"] = 1
    /\ ~HasNoData(port1)
====
